---- MODULE Spec2Model ----
(***************************************************************************)
(* Model of the variable-length record codec of smb-rs: the chained-list   *)
(* codec (smb-fscc/src/chained_list.rs) over a seekable byte buffer, the   *)
(* bounded (take_seek) views used by the message types of smb-msg, and the *)
(* length/offset fields those message types compute at encode time.       *)
(*                                                                         *)
(* A stream is a byte sequence `buf` (a Cursor<Vec<u8>>), a position `pos` *)
(* counted from 0, and `take_end`, the absolute end of the bounded view    *)
(* the reader goes through (the buffer length for a plain cursor).         *)
(***************************************************************************)
EXTENDS Integers, Sequences, FiniteSets, TLC

VARIABLES
    pc,               \* position of the encode/decode call
    OFFSET_PAD,       \* const generic OFFSET_PAD of ChainedItem / ChainedItemList
    start,            \* stream position at which the list, or the message, starts
    value,            \* the Vec<ChainedItem<T>> handed to write_chained
    buf,              \* bytes of the stream
    pos,              \* stream position
    take_end,         \* end of the bounded view (TakeSeek.end), absolute
    idx,              \* write_chained: enumerate() index, 0-based
    markers,          \* recorded position of every next_entry_offset marker written
    offsets,          \* values back-patched into next_entry_offset markers, in order
    items,            \* read_chained: the Vec being built
    starts,           \* read_chained: position_before of every item read
    result,           \* "none" | "ok" | "err" | "panic"
    readHi,           \* one past the highest stream index handed out by a read
    lastHi,           \* the same, for the reads of the latest ChainedItem alone
    failAt,           \* where a decode failed: "" | "eof" | "assert" | "body"
    kind,             \* the message type whose encode call is running
    plen,             \* length of the payload the length field describes
    plen2,            \* TreeConnectRequest: UTF-16 code units of the path
    lenField,         \* the value written into the length field, -1: none
    build,            \* "debug" (overflow checks on) | "release" (wrapping)
    cc,               \* CreateContext: the header fields read so far
    wrapped,          \* a u64 subtraction wrapped around during this decode
    msg,              \* the message value handed to the encode call
    decoded,          \* what the decode call returned for the encoded bytes
    prog,             \* the field writes the running encode call has still to do
    anchor,           \* stream positions before and after each payload write
    pm                \* the PosMarkers written so far: position, width, value

chainVars == << pc, OFFSET_PAD, start, value, buf, pos, take_end, idx, markers,
           offsets, items, starts, result, readHi, lastHi, failAt >>

encVars == << kind, plen, plen2, lenField >>

ccVars == << build, cc, wrapped >>

msgVars == << msg, decoded >>

mkVars == << prog, anchor, pm >>

vars == << chainVars, encVars, ccVars, msgVars, mkVars >>

---------------------------------------------------------------------------
(* Bounds of the model (not program constants).                            *)
MaxItems == 2
MaxNameLen == 2
MaxWords == 6

(* Input domains.                                                           *)
Pads == {4, 8}
StartPositions == {0, 2, 4, 8}
Actions == {1, 4}
NameChars == {97}
WordValues == {0, 4, 6, 8, 12}

NoMessage == [type |-> ""]

\* no encode call with PosMarkers is running
NoMarkers == prog = << >> /\ anchor = << >> /\ pm = << >>

NoHeader == [name_offset |-> 0, name_length |-> 0, data_offset |-> 0,
             data_length |-> 0, marker |-> 0, name |-> << >>]

---------------------------------------------------------------------------
(* Integers and bytes                                                       *)
Min(a, b) == IF a < b THEN a ELSE b
Max(a, b) == IF a > b THEN a ELSE b

CHAINED_ITEM_PREFIX_SIZE == 4

\* little-endian u32 / u16 on the wire
U32Bytes(v) == << v % 256, (v \div 256) % 256, (v \div 65536) % 256,
                  (v \div 16777216) % 256 >>
U32Val(b) == b[1] + 256 * b[2] + 65536 * b[3] + 16777216 * b[4]
U16Bytes(v) == << v % 256, (v \div 256) % 256 >>
U16Val(b) == b[1] + 256 * b[2]

Zeros(n) == [i \in 1..n |-> 0]

\* Cursor<Vec<u8>>::write at position p: overwrites in place, grows the
\* vector (zero-filling a gap) when the write ends past its length.
WriteAt(b, p, bytes) ==
    [i \in 1..Max(Len(b), p + Len(bytes)) |->
        IF i > p /\ i <= p + Len(bytes) THEN bytes[i - p]
        ELSE IF i <= Len(b) THEN b[i] ELSE 0]

\* (mutant) a whole boundary of padding at a position that is aligned
AlignPadding_Full(p, n) == n - (p % n)

\* padding written (or skipped) by align_before = n at position p
AlignPadding(p, n) == (n - (p % n)) % n

---------------------------------------------------------------------------
(* Streams                                                                  *)

\* (mutant) the view does not clamp: reads go on into the inner stream
TakeSeekLimit_Unbounded(end, p) == 1073741824

\* TakeSeek::read: limit = end.saturating_sub(pos); nothing is read at limit 0
TakeSeekLimit(end, p) == IF end > p THEN end - p ELSE 0

\* Cursor::read: the bytes left in the vector at position p
CursorRemaining(b, p) == IF Len(b) > p THEN Len(b) - p ELSE 0

\* read_exact of n bytes at p through a view ending at `end`: the bytes, or
\* UnexpectedEof; hi is one past the last stream index handed out (0: none).
ReadExact(b, p, n, end) ==
    LET avail == Min(TakeSeekLimit(end, p), CursorRemaining(b, p))
        got == Min(n, avail)
    IN [ok |-> got = n,
        bytes |-> IF got = n THEN SubSeq(b, p + 1, p + n) ELSE << >>,
        hi |-> IF got > 0 THEN p + got ELSE 0]

\* seek(SeekFrom::End(0)) of the reader read_chained is given, a take_seek
\* view over b: the end of the view, whether or not b reaches it
StreamEnd(b, end) == end

---------------------------------------------------------------------------
(* PosMarker<u32>: placeholder, back-patch, relative seek                   *)

\* BinWrite of a PosMarker: records the position, writes a zero of T's width
PosMarkerWrite(b, p) == [buf |-> WriteAt(b, p, Zeros(CHAINED_ITEM_PREFIX_SIZE)),
                         pos |-> p + CHAINED_ITEM_PREFIX_SIZE,
                         marker |-> p]

\* back-patch: seek to the marker, write the value, seek back
PosMarkerWriteBack(b, marker, v) == WriteAt(b, marker, U32Bytes(v))

\* write_roff: the offset of the current position relative to the marker
WriteRoffValue(p, marker) == p - marker

\* seek_relative(false): SeekFrom::Start(marker position + marker value)
SeekRelative(marker, v) == marker + v

\* seek_relative(true): a marker value of 0 means there is nothing to seek
\* to and the reader stays at cur, where it is (SeekFrom::Current(0)); any
\* other value is sought as by seek_relative(false)
SeekRelativeZeroCheck(marker, v, cur) ==
    IF v = 0 THEN cur ELSE SeekRelative(marker, v)

---------------------------------------------------------------------------
(* The item body T: FileNotifyInformation                                   *)
(*   action: u32 (NotifyAction), file_name_length: u32 (bytes),            *)
(*   file_name: file_name_length bytes of UTF-16LE code units              *)

ValidAction(a) == a \in 1..11

WideBytes(name) ==
    [i \in 1..(2 * Len(name)) |->
        IF i % 2 = 1 THEN name[(i + 1) \div 2] % 256 ELSE name[i \div 2] \div 256]

WideUnits(bytes) ==
    [i \in 1..(Len(bytes) \div 2) |-> bytes[2 * i - 1] + 256 * bytes[2 * i]]

TBytes(t) == U32Bytes(t.action) \o U32Bytes(2 * Len(t.file_name))
             \o WideBytes(t.file_name)

ReadT(b, p, end) ==
    LET ra == ReadExact(b, p, 4, end)
        rl == ReadExact(b, p + 4, 4, end)
        n == U32Val(rl.bytes)
        rn == ReadExact(b, p + 8, n, end)
    IN IF ~ra.ok THEN [ok |-> FALSE, hi |-> ra.hi]
       ELSE IF ~ValidAction(U32Val(ra.bytes)) THEN [ok |-> FALSE, hi |-> ra.hi]
       ELSE IF ~rl.ok THEN [ok |-> FALSE, hi |-> Max(ra.hi, rl.hi)]
       ELSE IF n % 2 # 0 THEN [ok |-> FALSE, hi |-> rl.hi]
       ELSE IF ~rn.ok THEN [ok |-> FALSE, hi |-> Max(rl.hi, rn.hi)]
       ELSE [ok |-> TRUE, hi |-> Max(rl.hi, rn.hi),
             val |-> [action |-> U32Val(ra.bytes), file_name |-> WideUnits(rn.bytes)],
             pos |-> p + 8 + n]

---------------------------------------------------------------------------
(* ChainedItem<T, OFFSET_PAD>                                               *)

\* (mutant) the alignment before the offset placeholder is left out
ChainedItemWrite_NoAlign(b, p, t, last, pad) ==
    LET m == PosMarkerWrite(b, p)
        body == TBytes(t)
        b2 == WriteAt(m.buf, m.pos, body)
        p2 == m.pos + Len(body)
        off == WriteRoffValue(p2, m.marker)
    IN IF last THEN [buf |-> b2, pos |-> p2, marker |-> m.marker, off |-> << >>]
       ELSE [buf |-> PosMarkerWriteBack(b2, m.marker, off), pos |-> p2,
             marker |-> m.marker, off |-> << off >>]

\* (mutant) the placeholder field is written for the last item too: `if(!last)`
\* is dropped, so the last item is padded and its offset back-patched
ChainedItemWrite_PadLast(b, p, t, last, pad) ==
    LET m == PosMarkerWrite(b, p)
        body == TBytes(t)
        b2 == WriteAt(m.buf, m.pos, body)
        p2 == m.pos + Len(body)
        padn == AlignPadding(p2, pad)
        b3 == WriteAt(b2, p2, Zeros(padn))
        p3 == p2 + padn
        off == WriteRoffValue(p3, m.marker)
    IN [buf |-> PosMarkerWriteBack(b3, m.marker, off), pos |-> p3,
        marker |-> m.marker, off |-> IF last THEN << >> ELSE << off >>]

\* BinWrite of one ChainedItem with the import `last`
ChainedItemWrite(b, p, t, last, pad) ==
    LET m == PosMarkerWrite(b, p)
        body == TBytes(t)
        b2 == WriteAt(m.buf, m.pos, body)
        p2 == m.pos + Len(body)
        padn == AlignPadding(p2, pad)
        b3 == WriteAt(b2, p2, Zeros(padn))
        p3 == p2 + padn
        off == WriteRoffValue(p3, m.marker)
    IN IF last THEN [buf |-> b2, pos |-> p2, marker |-> m.marker, off |-> << >>]
       ELSE [buf |-> PosMarkerWriteBack(b3, m.marker, off), pos |-> p3,
             marker |-> m.marker, off |-> << off >>]

\* (mutant) the assert is missing
OffsetAligned_Unchecked(k, pad) == TRUE

\* the assert on next_entry_offset
OffsetAligned(k, pad) == k % pad = 0

\* (mutant) the seek to the next entry is measured from the end of the
\* next_entry_offset field instead of its start
ChainedItemRead_SeekFromBody(b, p, end, pad) ==
    LET r0 == ReadExact(b, p, CHAINED_ITEM_PREFIX_SIZE, end)
        k == U32Val(r0.bytes)
        t == ReadT(b, p + CHAINED_ITEM_PREFIX_SIZE, end)
    IN IF ~r0.ok THEN [ok |-> FALSE, fail |-> "eof", hi |-> r0.hi, pos |-> p]
       ELSE IF ~OffsetAligned(k, pad)
            THEN [ok |-> FALSE, fail |-> "assert", hi |-> r0.hi, pos |-> p]
       ELSE IF ~t.ok
            THEN [ok |-> FALSE, fail |-> "body", hi |-> Max(r0.hi, t.hi), pos |-> p]
       ELSE [ok |-> TRUE, fail |-> "", hi |-> Max(r0.hi, t.hi), val |-> t.val,
             next |-> k,
             pos |-> IF k = 0 THEN p ELSE SeekRelative(p + CHAINED_ITEM_PREFIX_SIZE, k)]

\* (mutant) no seek at all when next_entry_offset is 0: the reader stays
\* after the body
ChainedItemRead_NoSeekOnZero(b, p, end, pad) ==
    LET r0 == ReadExact(b, p, CHAINED_ITEM_PREFIX_SIZE, end)
        k == U32Val(r0.bytes)
        t == ReadT(b, p + CHAINED_ITEM_PREFIX_SIZE, end)
    IN IF ~r0.ok THEN [ok |-> FALSE, fail |-> "eof", hi |-> r0.hi, pos |-> p]
       ELSE IF ~OffsetAligned(k, pad)
            THEN [ok |-> FALSE, fail |-> "assert", hi |-> r0.hi, pos |-> p]
       ELSE IF ~t.ok
            THEN [ok |-> FALSE, fail |-> "body", hi |-> Max(r0.hi, t.hi), pos |-> p]
       ELSE [ok |-> TRUE, fail |-> "", hi |-> Max(r0.hi, t.hi), val |-> t.val,
             next |-> k, pos |-> IF k = 0 THEN t.pos ELSE SeekRelative(p, k)]

\* (mutant) the bytes skipped on the way to the next entry have to be zero
ChainedItemRead_StrictPadding(b, p, end, pad) ==
    LET r0 == ReadExact(b, p, CHAINED_ITEM_PREFIX_SIZE, end)
        k == U32Val(r0.bytes)
        t == ReadT(b, p + CHAINED_ITEM_PREFIX_SIZE, end)
    IN IF ~r0.ok THEN [ok |-> FALSE, fail |-> "eof", hi |-> r0.hi, pos |-> p]
       ELSE IF ~OffsetAligned(k, pad)
            THEN [ok |-> FALSE, fail |-> "assert", hi |-> r0.hi, pos |-> p]
       ELSE IF ~t.ok
            THEN [ok |-> FALSE, fail |-> "body", hi |-> Max(r0.hi, t.hi), pos |-> p]
       ELSE IF \E i \in (t.pos + 1)..Min(p + k, Len(b)) : b[i] # 0
            THEN [ok |-> FALSE, fail |-> "assert", hi |-> Max(r0.hi, t.hi), pos |-> p]
       ELSE [ok |-> TRUE, fail |-> "", hi |-> Max(r0.hi, t.hi), val |-> t.val,
             next |-> k, pos |-> SeekRelative(p, k)]

\* BinRead of one ChainedItem at p; on failure the reader is put back at p
ChainedItemRead(b, p, end, pad) ==
    LET r0 == ReadExact(b, p, CHAINED_ITEM_PREFIX_SIZE, end)
        k == U32Val(r0.bytes)
        t == ReadT(b, p + CHAINED_ITEM_PREFIX_SIZE, end)
    IN IF ~r0.ok THEN [ok |-> FALSE, fail |-> "eof", hi |-> r0.hi, pos |-> p]
       ELSE IF ~OffsetAligned(k, pad)
            THEN [ok |-> FALSE, fail |-> "assert", hi |-> r0.hi, pos |-> p]
       ELSE IF ~t.ok
            THEN [ok |-> FALSE, fail |-> "body", hi |-> Max(r0.hi, t.hi), pos |-> p]
       ELSE [ok |-> TRUE, fail |-> "", hi |-> Max(r0.hi, t.hi), val |-> t.val,
             next |-> k, pos |-> SeekRelative(p, k)]

---------------------------------------------------------------------------
(* Values and inputs                                                        *)

SeqsUpTo(S, n) == UNION {[1..k -> S] : k \in 0..n}

Names == SeqsUpTo(NameChars, MaxNameLen)
Items == [action : Actions, file_name : Names]
Lists == SeqsUpTo(Items, MaxItems)

\* a buffer given as little-endian 32-bit words
WordsBytes(ws) == [i \in 1..(4 * Len(ws)) |-> U32Bytes(ws[(i + 3) \div 4])[((i - 1) % 4) + 1]]

\* what may follow a list inside its message: nothing, or bytes that would
\* themselves parse as one more item
Siblings == { << >>, WordsBytes(<< 0, 4, 0 >>) }

---------------------------------------------------------------------------
(* ChainedItem::write_chained and ChainedItem::read_chained, step by step   *)

\* one iteration of the `for (i, item) in value.iter().enumerate()` loop
write_chained_item ==
    /\ pc = "write"
    /\ idx < Len(value)
    /\ LET w == ChainedItemWrite(buf, pos, value[idx + 1], idx = Len(value) - 1,
                                 OFFSET_PAD)
       IN /\ buf' = w.buf
          /\ pos' = w.pos
          /\ markers' = Append(markers, w.marker)
          /\ offsets' = offsets \o w.off
    /\ idx' = idx + 1
    /\ UNCHANGED << pc, OFFSET_PAD, start, value, take_end, items, starts, result,
                    readHi, lastHi, failAt >>
    /\ UNCHANGED << encVars, ccVars, msgVars, mkVars >>

\* the loop is exhausted: Ok(())
write_chained_return ==
    /\ pc = "write"
    /\ idx = Len(value)
    /\ pc' = "encoded"
    /\ UNCHANGED << OFFSET_PAD, start, value, buf, pos, take_end, idx, markers,
                    offsets, items, starts, result, readHi, lastHi, failAt >>
    /\ UNCHANGED << encVars, ccVars, msgVars, mkVars >>

\* The produced bytes, followed by the bytes of whatever comes after the list
\* in the message, are decoded as ChangeNotifyResponse does: seek to
\* SeekFrom::Start(_output_buffer_offset), then a take_seek view of
\* _output_buffer_length bytes. The two markers were filled by
\* write_aoff_size with the position and the size of the list, unless the
\* list is empty: then the field is not written (bw(if(!buffer.is_empty())))
\* and both keep 0, so the reader is opened at 0 with a view of 0 bytes.
\* From here on `start` is where the reader was opened.
open_reader ==
    /\ pc = "encoded"
    /\ pc' = "read"
    /\ LET output_buffer_offset == IF value = << >> THEN 0 ELSE start
           output_buffer_length == IF value = << >> THEN 0 ELSE Len(buf) - start
       IN /\ pos' = output_buffer_offset
          /\ start' = output_buffer_offset
          /\ take_end' = output_buffer_offset + output_buffer_length
    /\ \E sib \in Siblings : buf' = buf \o sib
    /\ UNCHANGED << OFFSET_PAD, value, idx, markers, offsets, items, starts,
                    result, readHi, lastHi, failAt >>
    /\ UNCHANGED << encVars, ccVars, msgVars, mkVars >>

\* (mutant) the end-of-stream probe is missing
read_chained_begin_NoProbe ==
    /\ pc = "read"
    /\ pc' = "loop"
    /\ UNCHANGED << OFFSET_PAD, start, value, buf, pos, take_end, idx, markers,
                    offsets, items, starts, result, readHi, lastHi, failAt >>
    /\ UNCHANGED << encVars, ccVars, msgVars, mkVars >>

\* read_chained up to the loop: the end-of-stream probe
read_chained_begin ==
    /\ pc = "read"
    /\ IF pos = StreamEnd(buf, take_end)
       THEN /\ pc' = "done"
            /\ result' = "ok"
       ELSE /\ pc' = "loop"
            /\ UNCHANGED result
    /\ UNCHANGED << OFFSET_PAD, start, value, buf, pos, take_end, idx, markers,
                    offsets, items, starts, readHi, lastHi, failAt >>
    /\ UNCHANGED << encVars, ccVars, msgVars, mkVars >>

\* (mutant) a failed item ends the loop and the items read so far are
\* returned
read_chained_loop_Partial ==
    /\ pc = "loop"
    /\ LET position_before == pos
           r == ChainedItemRead(buf, pos, take_end, OFFSET_PAD)
       IN /\ readHi' = Max(readHi, r.hi)
          /\ lastHi' = r.hi
          /\ pos' = r.pos
          /\ starts' = Append(starts, position_before)
          /\ IF ~r.ok
             THEN /\ pc' = "done"
                  /\ result' = "ok"
                  /\ failAt' = r.fail
                  /\ UNCHANGED items
             ELSE /\ items' = Append(items, r.val)
                  /\ UNCHANGED failAt
                  /\ IF position_before = r.pos
                     THEN pc' = "done" /\ result' = "ok"
                     ELSE pc' = "loop" /\ UNCHANGED result
    /\ UNCHANGED << OFFSET_PAD, start, value, buf, take_end, idx, markers, offsets >>
    /\ UNCHANGED << encVars, ccVars, msgVars, mkVars >>

\* (mutant) the loop does not compare the position with position_before:
\* an item with next_entry_offset 0 does not end it
read_chained_loop_NoBreak ==
    /\ pc = "loop"
    /\ LET position_before == pos
           r == ChainedItemRead(buf, pos, take_end, OFFSET_PAD)
       IN /\ readHi' = Max(readHi, r.hi)
          /\ lastHi' = r.hi
          /\ pos' = r.pos
          /\ starts' = Append(starts, position_before)
          /\ IF ~r.ok
             THEN /\ pc' = "done"
                  /\ result' = "err"
                  /\ failAt' = r.fail
                  /\ UNCHANGED items
             ELSE /\ items' = Append(items, r.val)
                  /\ UNCHANGED << failAt, pc, result >>
    /\ UNCHANGED << OFFSET_PAD, start, value, buf, take_end, idx, markers, offsets >>
    /\ UNCHANGED << encVars, ccVars, msgVars, mkVars >>

\* (mutant) after the last item the reader is left behind the item's body
read_chained_loop_EndAtBody ==
    /\ pc = "loop"
    /\ LET position_before == pos
           r == ChainedItemRead(buf, pos, take_end, OFFSET_PAD)
       IN /\ readHi' = Max(readHi, r.hi)
          /\ lastHi' = r.hi
          /\ starts' = Append(starts, position_before)
          /\ IF ~r.ok
             THEN /\ pc' = "done"
                  /\ result' = "err"
                  /\ failAt' = r.fail
                  /\ pos' = r.pos
                  /\ UNCHANGED items
             ELSE /\ items' = Append(items, r.val)
                  /\ UNCHANGED failAt
                  /\ IF position_before = r.pos
                     THEN /\ pc' = "done" /\ result' = "ok"
                          /\ pos' = ReadT(buf, position_before
                                               + CHAINED_ITEM_PREFIX_SIZE, take_end).pos
                     ELSE /\ pc' = "loop" /\ UNCHANGED result
                          /\ pos' = r.pos
    /\ UNCHANGED << OFFSET_PAD, start, value, buf, take_end, idx, markers, offsets >>
    /\ UNCHANGED << encVars, ccVars, msgVars, mkVars >>

\* one iteration of the loop of read_chained
read_chained_loop ==
    /\ pc = "loop"
    /\ LET position_before == pos
           r == ChainedItemRead(buf, pos, take_end, OFFSET_PAD)
       IN /\ readHi' = Max(readHi, r.hi)
          /\ lastHi' = r.hi
          /\ pos' = r.pos
          /\ IF ~r.ok
             THEN /\ pc' = "done"
                  /\ result' = "err"
                  /\ failAt' = r.fail
                  /\ starts' = Append(starts, position_before)
                  /\ UNCHANGED items
             ELSE /\ items' = Append(items, r.val)
                  /\ starts' = Append(starts, position_before)
                  /\ UNCHANGED failAt
                  /\ IF position_before = r.pos
                     THEN pc' = "done" /\ result' = "ok"
                     ELSE pc' = "loop" /\ UNCHANGED result
    /\ UNCHANGED << OFFSET_PAD, start, value, buf, take_end, idx, markers, offsets >>
    /\ UNCHANGED << encVars, ccVars, msgVars, mkVars >>

---------------------------------------------------------------------------
(* Spec: a list is encoded at `start` of a fresh cursor, then decoded       *)

Init ==
    /\ pc = "write"
    /\ OFFSET_PAD \in Pads
    /\ start \in StartPositions
    /\ value \in Lists
    /\ buf = Zeros(start)
    /\ pos = start
    /\ take_end = 0
    /\ idx = 0
    /\ markers = << >>
    /\ offsets = << >>
    /\ items = << >>
    /\ starts = << >>
    /\ result = "none"
    /\ readHi = 0
    /\ lastHi = 0
    /\ failAt = ""
    /\ kind = "" /\ plen = 0 /\ plen2 = 0 /\ lenField = -1
    /\ build = "release" /\ cc = NoHeader /\ wrapped = FALSE
    /\ msg = NoMessage /\ decoded = NoMessage
    /\ NoMarkers

Next ==
    \/ write_chained_item
    \/ write_chained_return
    \/ open_reader
    \/ read_chained_begin
    \/ read_chained_loop

Spec == Init /\ [][Next]_vars

---------------------------------------------------------------------------
(* SpecDecode: read_chained on arbitrary bytes, the whole buffer in view    *)

InitDecode ==
    /\ pc = "read"
    /\ OFFSET_PAD \in Pads
    /\ start = 0
    /\ value = << >>
    /\ \E ws \in SeqsUpTo(WordValues, MaxWords) : buf = WordsBytes(ws)
    /\ pos = 0
    /\ take_end = Len(buf)
    /\ idx = 0
    /\ markers = << >>
    /\ offsets = << >>
    /\ items = << >>
    /\ starts = << >>
    /\ result = "none"
    /\ readHi = 0
    /\ lastHi = 0
    /\ failAt = ""
    /\ kind = "" /\ plen = 0 /\ plen2 = 0 /\ lenField = -1
    /\ build = "release" /\ cc = NoHeader /\ wrapped = FALSE
    /\ msg = NoMessage /\ decoded = NoMessage
    /\ NoMarkers

NextDecode ==
    \/ read_chained_begin
    \/ read_chained_loop

SpecDecode == InitDecode /\ [][NextDecode]_vars

---------------------------------------------------------------------------
(* Properties of the chained-list codec                                     *)

BytesAt(p, n) == SubSeq(buf, p + 1, p + n)

\* an item with an empty file name: an 8-byte body
Item8(a) == [action |-> a, file_name |-> << >>]
Body8(a) == TBytes(Item8(a))
Actions8 == WordValues \cap 1..11

\* C1: a list encoded by write_chained at the start of its own buffer and
\* decoded by read_chained comes back equal: same values, order and length.
C1_RoundTrip ==
    (pc = "done" /\ start = 0) => (result = "ok" /\ items = value)

C1_Witness ==
    /\ pc = "done" /\ start = 0 /\ OFFSET_PAD = 8
    /\ Len(value) = 2 /\ Len(value[1].file_name) = 1
    /\ result = "ok" /\ items = value

\* C2: write_chained of an empty list emits no byte, and read_chained started
\* at the end of its bounded region returns an empty list, without error and
\* without attempting to read an item.
C2_EmptyChain ==
    /\ (pc = "encoded" /\ value = << >>) => (Len(buf) = start /\ pos = start)
    /\ (pc \in {"loop", "done"} /\ start = StreamEnd(buf, take_end))
          => /\ pc = "done" /\ result = "ok"
             /\ items = << >> /\ starts = << >>
             /\ readHi = 0 /\ pos = start

C2_Witness ==
    /\ pc = "done" /\ value = << >> /\ result = "ok" /\ items = << >>
    /\ Len(buf) > take_end /\ pos = take_end /\ readHi = 0

\* C3 as stated: a list of N > 0 items is encoded with N-1 offset fields, the
\* last item being its body alone; [A, B] of two 8-byte bodies with pad 4 is
\* the 20 bytes [offset 12][A][B].
C3_Original ==
    \A a, b \in Actions :
        (pc = "encoded" /\ start = 0 /\ OFFSET_PAD = 4
            /\ value = << Item8(a), Item8(b) >>)
        => buf = U32Bytes(12) \o Body8(a) \o Body8(b)

\* C3 amended: every item, the last included, starts with a 4-byte
\* next_entry_offset field; the first N-1 fields are back-patched with the
\* distance to the next item and the last one stays 0; the last item is its
\* zero offset field and its body, with no trailing padding. [A, B] of two
\* 8-byte bodies with pad 4 is the 24 bytes [offset 12][A][offset 0][B].
C3_TerminalShape ==
    (pc = "encoded" /\ Len(value) > 0) =>
        LET N == Len(value) IN
        /\ Len(markers) = N
        /\ Len(offsets) = N - 1
        /\ \A i \in 1..(N - 1) :
              /\ offsets[i] = markers[i + 1] - markers[i]
              /\ offsets[i] # 0
              /\ BytesAt(markers[i], 4) = U32Bytes(offsets[i])
        /\ SubSeq(buf, markers[N] + 1, Len(buf))
              = Zeros(CHAINED_ITEM_PREFIX_SIZE) \o TBytes(value[N])
        /\ pos = Len(buf)
        /\ \A a, b \in Actions :
              (start = 0 /\ OFFSET_PAD = 4 /\ value = << Item8(a), Item8(b) >>)
              => buf = U32Bytes(12) \o Body8(a) \o U32Bytes(0) \o Body8(b)

C3_Witness ==
    /\ pc = "encoded" /\ start = 0 /\ OFFSET_PAD = 4
    /\ value = << Item8(1), Item8(4) >>
    /\ Len(buf) = 24

\* C7: every next_entry_offset back-patched by write_chained is a multiple of
\* OFFSET_PAD, wherever the list starts.
C7_EncoderAlignment ==
    \A i \in 1..Len(offsets) : offsets[i] % OFFSET_PAD = 0

\* C4 as stated: the 20 bytes [offset 12][A][B] decode to [A, B].
C4_Original ==
    \A a, b \in Actions8 :
        (pc = "done" /\ OFFSET_PAD = 4
            /\ buf = U32Bytes(12) \o Body8(a) \o Body8(b))
        => (result = "ok" /\ items = << Item8(a), Item8(b) >>)

\* C4 amended: the 20 bytes [offset 12][A][B] are rejected (B's first bytes
\* are taken for its offset field and its body is cut short); the 24 bytes
\* [offset 12][A][offset 0][B] decode to [A, B].
C4_DecodeShape ==
    \A a, b \in Actions8 :
        /\ (pc = "done" /\ OFFSET_PAD = 4
               /\ buf = U32Bytes(12) \o Body8(a) \o Body8(b))
           => result = "err"
        /\ (pc = "done" /\ OFFSET_PAD = 4
               /\ buf = U32Bytes(12) \o Body8(a) \o U32Bytes(0) \o Body8(b))
           => (result = "ok" /\ items = << Item8(a), Item8(b) >>)

C4_Witness ==
    /\ pc = "done" /\ OFFSET_PAD = 4
    /\ buf = U32Bytes(12) \o Body8(4) \o U32Bytes(0) \o Body8(8)
    /\ result = "ok" /\ Len(items) = 2

\* the item at p has a zero next_entry_offset, a body that decodes, and
\* further bytes after that body inside the region
ZeroOffsetFollowed(p) ==
    /\ p + CHAINED_ITEM_PREFIX_SIZE <= StreamEnd(buf, take_end)
    /\ BytesAt(p, CHAINED_ITEM_PREFIX_SIZE) = Zeros(CHAINED_ITEM_PREFIX_SIZE)
    /\ ReadT(buf, p + CHAINED_ITEM_PREFIX_SIZE, take_end).ok
    /\ ReadT(buf, p + CHAINED_ITEM_PREFIX_SIZE, take_end).pos < StreamEnd(buf, take_end)

\* C5 as stated: a list in which an item followed by further bytes carries
\* next_entry_offset = 0 is rejected.
C5_Original ==
    (pc = "done" /\ \E i \in 1..Len(starts) : ZeroOffsetFollowed(starts[i]))
        => result = "err"

\* C5 amended: the first decoded item whose next_entry_offset is 0 ends the
\* list: read_chained returns Ok with the items up to and including it, and
\* the bytes that follow its body in the region are not looked at.
C5_ZeroEndsList ==
    \A i \in 1..Len(starts) :
        (pc = "done" /\ ZeroOffsetFollowed(starts[i])) =>
            /\ result = "ok"
            /\ i = Len(starts) /\ Len(items) = i
            /\ pos = starts[i]
            /\ lastHi = ReadT(buf, starts[i] + CHAINED_ITEM_PREFIX_SIZE, take_end).pos

C5_Witness ==
    /\ pc = "done" /\ result = "ok" /\ Len(items) = 2
    /\ ZeroOffsetFollowed(starts[2])
    /\ readHi < Len(buf)

\* C6: an item whose next_entry_offset is not a multiple of OFFSET_PAD fails
\* the whole read_chained with the assertion error, before its body is read
\* and before any seek to a next item.
C6_AlignmentEnforced ==
    \A i \in 1..Len(starts) :
        (/\ starts[i] + CHAINED_ITEM_PREFIX_SIZE <= StreamEnd(buf, take_end)
         /\ U32Val(BytesAt(starts[i], CHAINED_ITEM_PREFIX_SIZE)) % OFFSET_PAD # 0)
        => /\ pc = "done" /\ result = "err" /\ failAt = "assert"
           /\ i = Len(starts) /\ Len(items) = i - 1
           /\ pos = starts[i]
           /\ lastHi = starts[i] + CHAINED_ITEM_PREFIX_SIZE

C6_Witness ==
    /\ pc = "done" /\ result = "err" /\ failAt = "assert"
    /\ Len(items) = 1 /\ OFFSET_PAD = 8
    /\ U32Val(BytesAt(starts[2], 4)) = 12

---------------------------------------------------------------------------
(* Length and count fields computed at encode time                          *)

U16_MAX == 65535

\* u16::try_from(n): Ok for n <= u16::MAX
TryFromU16(n) == IF n <= U16_MAX THEN [ok |-> TRUE, v |-> n] ELSE [ok |-> FALSE]

\* #[bw(calc = u16::try_from(n).unwrap())]: the value, or a panic
CalcUnwrap(n) == IF TryFromU16(n).ok THEN [res |-> "ok", v |-> n]
                 ELSE [res |-> "panic", v |-> -1]

\* #[bw(try_calc = n.try_into())]: the value, or an error result
TryCalc(n) == IF TryFromU16(n).ok THEN [res |-> "ok", v |-> n]
              ELSE [res |-> "err", v |-> -1]

\* SizedWideString::size(): bytes of n UTF-16 code units
WideSize(n) == 2 * n

EncodeField(k, r) ==
    /\ pc = "encode"
    /\ kind = k
    /\ pc' = "done"
    /\ result' = r.res
    /\ lenField' = r.v
    /\ UNCHANGED << OFFSET_PAD, start, value, buf, pos, take_end, idx, markers,
                    offsets, items, starts, readHi, lastHi, failAt, kind, plen, plen2 >>
    /\ UNCHANGED << ccVars, msgVars, mkVars >>

\* SessionSetupRequest.security_buffer_length
SessionSetupRequest_write == EncodeField("SessionSetupRequest", CalcUnwrap(plen))

\* SessionSetupResponse.security_buffer_length
SessionSetupResponse_write == EncodeField("SessionSetupResponse", CalcUnwrap(plen))

\* CreateRequest.name_length, plen code units in name
CreateRequest_write == EncodeField("CreateRequest", TryCalc(WideSize(plen)))

\* CreateContext.name_length
CreateContext_write == EncodeField("CreateContext", CalcUnwrap(plen))

\* NegotiateRequest.dialect_count
NegotiateRequest_write == EncodeField("NegotiateRequest", TryCalc(plen))

\* TreeConnectRequest: path_length, then tree_connect_context_count when
\* there are contexts
TreeConnectRequest_write ==
    LET path == TryCalc(WideSize(plen2))
    IN EncodeField("TreeConnectRequest",
                   IF path.res # "ok" THEN path
                   ELSE IF plen = 0 THEN [res |-> "ok", v |-> -1]
                   ELSE CalcUnwrap(plen))

\* the number the length or count field has to hold
FieldDemand ==
    CASE kind \in {"CreateRequest"} -> WideSize(plen)
      [] kind = "TreeConnectRequest" -> Max(WideSize(plen2), plen)
      [] OTHER -> plen

EncodeKinds == {"SessionSetupRequest", "SessionSetupResponse", "CreateRequest",
                "CreateContext", "NegotiateRequest", "TreeConnectRequest"}
LenValues == {0, 1, 4, 100, 32767, 32768, 65534, 65535, 65536, 65537, 131072}

InitEncode ==
    /\ pc = "encode"
    /\ kind \in EncodeKinds
    /\ plen \in LenValues
    /\ plen2 \in IF kind = "TreeConnectRequest" THEN {1, 32767, 32768} ELSE {0}
    /\ lenField = -1
    /\ OFFSET_PAD = 4 /\ start = 0 /\ value = << >> /\ buf = << >> /\ pos = 0
    /\ take_end = 0 /\ idx = 0 /\ markers = << >> /\ offsets = << >>
    /\ items = << >> /\ starts = << >> /\ result = "none"
    /\ readHi = 0 /\ lastHi = 0 /\ failAt = ""
    /\ build = "release" /\ cc = NoHeader /\ wrapped = FALSE
    /\ msg = NoMessage /\ decoded = NoMessage
    /\ NoMarkers

NextEncode ==
    \/ SessionSetupRequest_write
    \/ SessionSetupResponse_write
    \/ CreateRequest_write
    \/ CreateContext_write
    \/ NegotiateRequest_write
    \/ TreeConnectRequest_write

SpecEncode == InitEncode /\ [][NextEncode]_vars

\* C8: an encode whose payload length does not fit the u16 length or count
\* field returns an error result; it neither truncates nor aborts.
C8_OverflowIsError ==
    (pc = "done" /\ kind \in EncodeKinds /\ FieldDemand > U16_MAX)
        => result = "err"

---------------------------------------------------------------------------
(* SpecBounded: read_chained through a take_seek view [start, take_end) of  *)
(* a buffer that goes on after the view                                     *)

BWordValues == {0, 4, 12}

InitBounded ==
    /\ pc = "read"
    /\ OFFSET_PAD \in Pads
    /\ \E ws \in SeqsUpTo(BWordValues, MaxWords) : buf = WordsBytes(ws)
    /\ start \in {s \in {0, 4} : s <= Len(buf)}
    /\ take_end \in {e \in start..Len(buf) : (e - start) % 2 = 0}
    /\ value = << >>
    /\ pos = start
    /\ idx = 0
    /\ markers = << >>
    /\ offsets = << >>
    /\ items = << >>
    /\ starts = << >>
    /\ result = "none"
    /\ readHi = 0
    /\ lastHi = 0
    /\ failAt = ""
    /\ kind = "" /\ plen = 0 /\ plen2 = 0 /\ lenField = -1
    /\ build = "release" /\ cc = NoHeader /\ wrapped = FALSE
    /\ msg = NoMessage /\ decoded = NoMessage
    /\ NoMarkers

NextBounded ==
    \/ read_chained_begin
    \/ read_chained_loop

SpecBounded == InitBounded /\ [][NextBounded]_vars

\* the item at p, whose offset field lies in the view, points to a next item
\* that does not fit in the view, or announces a file name that extends past
\* the view's end
PointsPast(p) ==
    /\ p + CHAINED_ITEM_PREFIX_SIZE <= take_end
    /\ \/ /\ U32Val(BytesAt(p, 4)) # 0
          /\ p + U32Val(BytesAt(p, 4)) + CHAINED_ITEM_PREFIX_SIZE > take_end
       \/ /\ p + 12 <= take_end
          /\ p + 12 + U32Val(BytesAt(p + 8, 4)) > take_end

\* C10: a list decoded through a bounded view of length L never reads a byte
\* at region offset L or beyond, and fails when an item's next_entry_offset
\* or inner length points or extends past L.
C10_Containment ==
    /\ readHi <= take_end
    /\ \A i \in 1..Len(starts) :
          (pc = "done" /\ PointsPast(starts[i])) => result = "err"

C10_Witness ==
    /\ pc = "done" /\ result = "err" /\ failAt = "eof"
    /\ Len(items) = 1
    /\ starts[2] = take_end /\ take_end < Len(buf)
    /\ ChainedItemRead(buf, starts[2], Len(buf), OFFSET_PAD).ok

---------------------------------------------------------------------------
(* Message values: encode to a fresh Cursor, decode the bytes again        *)

\* the variables an encode/decode of a message value leaves alone
msgIdle == << OFFSET_PAD, start, value, idx, markers, offsets, items, starts,
              readHi, lastHi, failAt, encVars, ccVars, mkVars >>

MsgInitRest ==
    /\ OFFSET_PAD = 4 /\ value = << >> /\ idx = 0
    /\ markers = << >> /\ offsets = << >> /\ items = << >> /\ starts = << >>
    /\ readHi = 0 /\ lastHi = 0 /\ failAt = ""
    /\ kind = "" /\ plen = 0 /\ plen2 = 0 /\ lenField = -1
    /\ build = "release" /\ cc = NoHeader /\ wrapped = FALSE
    /\ NoMarkers

\* a 64-bit or 128-bit value is held as its digits in base 65536, the least
\* significant first: 4 digits for a u64, 8 for a u128
RECURSIVE Digits(_, _)
Digits(v, n) ==
    IF n = 0 THEN << >> ELSE << v % 65536 >> \o Digits(v \div 65536, n - 1)

\* the u64 and the u128 of a small number
U64(v) == Digits(v, 4)
U128(v) == Digits(v, 8)

\* to_le_bytes: two bytes per digit, low byte first
RECURSIVE LittleEndian(_)
LittleEndian(d) ==
    IF d = << >> THEN << >>
    ELSE << Head(d) % 256, Head(d) \div 256 >> \o LittleEndian(Tail(d))

\* from_le_bytes
RECURSIVE LittleEndianVal(_)
LittleEndianVal(b) ==
    IF Len(b) < 2 THEN << >>
    ELSE << b[1] + 256 * b[2] >> \o LittleEndianVal(SubSeq(b, 3, Len(b)))

U64Bytes(v) == LittleEndian(SubSeq(v, 1, 4))
U128Bytes(v) == LittleEndian(SubSeq(v, 1, 8))
U64Val(b) == LittleEndianVal(SubSeq(b, 1, 8))
U128Val(b) == LittleEndianVal(SubSeq(b, 1, 16))

\* the result of a failed read
ReadErr == [ok |-> FALSE, val |-> NoMessage]

\* the `?` of a derived read: K goes on with the result r of a read that
\* succeeded, a read that failed ends the whole read with err
AndThen(r, err, K(_)) == IF r.ok THEN K(r) ELSE err

\* a value that the steps K of a handler share
With(v, K(_)) == K(v)

\* the encode call of message type t: BinWrite into a Cursor that holds
\* `start` bytes (the message header) already
MsgWrite(t, bytes) ==
    /\ pc = "encode"
    /\ msg.type \in t
    /\ buf' = Zeros(start) \o bytes
    /\ pos' = start + Len(bytes)
    /\ take_end' = start + Len(bytes)
    /\ pc' = "decode"
    /\ UNCHANGED << result, msg, decoded, msgIdle >>

\* the decode call of message type t: BinRead from position `start`; the
\* reader is left behind the last field read, or where it was on an error
MsgRead(t, r) ==
    /\ pc = "decode"
    /\ msg.type \in t
    /\ pc' = "done"
    /\ result' = IF r.ok THEN "ok" ELSE "err"
    /\ decoded' = r.val
    /\ pos' = IF r.ok THEN r.pos ELSE start
    /\ UNCHANGED << buf, take_end, msg, msgIdle >>

---------------------------------------------------------------------------
(* RequestLease and SvhdxOpenDeviceContext: enums without a discriminant    *)

RequestLeaseV1_SIZE == 32
RequestLeaseV2_SIZE == 52
SvhdxV1_SIZE == 168
SvhdxV2_SIZE == 192
HOST_NAME_UNITS == 63

RequestLeaseV1_write(x) ==
    U128Bytes(x.lease_key) \o U32Bytes(x.lease_state) \o U32Bytes(0)
        \o U64Bytes(U64(0))

RequestLeaseV2_write(x) ==
    U128Bytes(x.lease_key) \o U32Bytes(x.lease_state) \o U32Bytes(x.lease_flags)
        \o U64Bytes(U64(0)) \o U128Bytes(x.parent_lease_key) \o U16Bytes(x.epoch)
        \o U16Bytes(0)

RequestLease_bytes(x) ==
    IF x.type = "RqLsReqv1" THEN RequestLeaseV1_write(x) ELSE RequestLeaseV2_write(x)

\* lease_flags and lease_duration are asserted to be 0
RequestLeaseV1_read(b, p, end) ==
    LET r == ReadExact(b, p, RequestLeaseV1_SIZE, end)
    IN IF ~r.ok THEN ReadErr
       ELSE IF U32Val(SubSeq(r.bytes, 21, 24)) # 0 THEN ReadErr
       ELSE IF SubSeq(r.bytes, 25, 32) # Zeros(8) THEN ReadErr
       ELSE [ok |-> TRUE, pos |-> p + RequestLeaseV1_SIZE,
             val |-> [type |-> "RqLsReqv1",
                      lease_key |-> U128Val(SubSeq(r.bytes, 1, 16)),
                      lease_state |-> U32Val(SubSeq(r.bytes, 17, 20))]]

\* lease_duration is asserted to be 0, _reserved is not looked at
RequestLeaseV2_read(b, p, end) ==
    LET r == ReadExact(b, p, RequestLeaseV2_SIZE, end)
    IN IF ~r.ok THEN ReadErr
       ELSE IF SubSeq(r.bytes, 25, 32) # Zeros(8) THEN ReadErr
       ELSE [ok |-> TRUE, pos |-> p + RequestLeaseV2_SIZE,
             val |-> [type |-> "RqLsReqv2",
                      lease_key |-> U128Val(SubSeq(r.bytes, 1, 16)),
                      lease_state |-> U32Val(SubSeq(r.bytes, 17, 20)),
                      lease_flags |-> U32Val(SubSeq(r.bytes, 21, 24)),
                      parent_lease_key |-> U128Val(SubSeq(r.bytes, 33, 48)),
                      epoch |-> U16Val(SubSeq(r.bytes, 49, 50))]]

\* a binrw enum without magic: the variants are tried in declaration order
\* from the same position, the first that parses is returned
RequestLease_read(b, p, end) ==
    IF RequestLeaseV1_read(b, p, end).ok THEN RequestLeaseV1_read(b, p, end)
    ELSE RequestLeaseV2_read(b, p, end)

\* Boolean: one byte, 0 is false
BooleanByte(v) == IF v THEN 1 ELSE 0

SvhdxOpenDeviceContextV1_write(x) ==
    U32Bytes(x.version) \o << BooleanByte(x.has_initiator_id) >> \o << 0 >>
        \o U16Bytes(0) \o U128Bytes(x.initiator_id) \o U32Bytes(x.flags)
        \o U32Bytes(x.originator_flags) \o U64Bytes(x.open_request_id)
        \o U16Bytes(x.initiator_host_name_length)
        \o WideBytes([i \in 1..HOST_NAME_UNITS |-> x.initiator_host_name])

SvhdxOpenDeviceContextV2_write(x) ==
    SvhdxOpenDeviceContextV1_write(x)
        \o U32Bytes(x.virtual_disk_properties_initialized)
        \o U32Bytes(x.server_service_version) \o U32Bytes(x.virtual_sector_size)
        \o U32Bytes(x.physical_sector_size) \o U64Bytes(x.virtual_size)

SvhdxOpenDeviceContext_bytes(x) ==
    IF x.type = "SvhdxV1" THEN SvhdxOpenDeviceContextV1_write(x)
    ELSE SvhdxOpenDeviceContextV2_write(x)

\* the fields both versions start with; initiator_host_name is an array
\* whose units all hold the same value here
SvhdxCommon(bytes) ==
    [version |-> U32Val(SubSeq(bytes, 1, 4)),
     has_initiator_id |-> bytes[5] # 0,
     initiator_id |-> U128Val(SubSeq(bytes, 9, 24)),
     flags |-> U32Val(SubSeq(bytes, 25, 28)),
     originator_flags |-> U32Val(SubSeq(bytes, 29, 32)),
     open_request_id |-> U64Val(SubSeq(bytes, 33, 40)),
     initiator_host_name_length |-> U16Val(SubSeq(bytes, 41, 42)),
     initiator_host_name |-> U16Val(SubSeq(bytes, 43, 44))]

SvhdxOpenDeviceContextV1_read(b, p, end) ==
    LET r == ReadExact(b, p, SvhdxV1_SIZE, end)
    IN IF ~r.ok THEN ReadErr
       ELSE [ok |-> TRUE, pos |-> p + SvhdxV1_SIZE,
             val |-> [type |-> "SvhdxV1"] @@ SvhdxCommon(r.bytes)]

SvhdxOpenDeviceContextV2_read(b, p, end) ==
    LET r == ReadExact(b, p, SvhdxV2_SIZE, end)
    IN IF ~r.ok THEN ReadErr
       ELSE [ok |-> TRUE, pos |-> p + SvhdxV2_SIZE,
             val |-> [type |-> "SvhdxV2",
                      virtual_disk_properties_initialized |->
                          U32Val(SubSeq(r.bytes, 169, 172)),
                      server_service_version |-> U32Val(SubSeq(r.bytes, 173, 176)),
                      virtual_sector_size |-> U32Val(SubSeq(r.bytes, 177, 180)),
                      physical_sector_size |-> U32Val(SubSeq(r.bytes, 181, 184)),
                      virtual_size |-> U64Val(SubSeq(r.bytes, 185, 192))]
                     @@ SvhdxCommon(r.bytes)]

SvhdxOpenDeviceContext_read(b, p, end) ==
    IF SvhdxOpenDeviceContextV1_read(b, p, end).ok
    THEN SvhdxOpenDeviceContextV1_read(b, p, end)
    ELSE SvhdxOpenDeviceContextV2_read(b, p, end)

LeaseTypes == {"RqLsReqv1", "RqLsReqv2"}
SvhdxTypes == {"SvhdxV1", "SvhdxV2"}

\* LeaseFlags: parent_lease_key_set is bit 2
LeaseFlagValues == {0, 4}

RequestLeaseValues ==
    [type : {"RqLsReqv1"}, lease_key : {U128(1), U128(7)}, lease_state : 0..3]
    \cup [type : {"RqLsReqv2"}, lease_key : {U128(1), U128(7)}, lease_state : {1, 3},
          lease_flags : LeaseFlagValues, parent_lease_key : {U128(0), U128(9)},
          epoch : {0, 1}]

SvhdxCommonValues ==
    [version : {1, 2}, has_initiator_id : BOOLEAN, initiator_id : {U128(5)},
     flags : {0}, originator_flags : {0, 1}, open_request_id : {U64(3)},
     initiator_host_name_length : {0, 2}, initiator_host_name : {0, 97}]

SvhdxValues ==
    { [type |-> "SvhdxV1"] @@ c : c \in SvhdxCommonValues }
    \cup { [type |-> "SvhdxV2", virtual_disk_properties_initialized |-> 1,
            server_service_version |-> 2, virtual_sector_size |-> 512,
            physical_sector_size |-> 4096, virtual_size |-> U64(v)] @@ c :
           c \in SvhdxCommonValues, v \in {0, 1024} }

RequestLease_encode == MsgWrite(LeaseTypes, RequestLease_bytes(msg))
RequestLease_decode == MsgRead(LeaseTypes, RequestLease_read(buf, start, take_end))
SvhdxOpenDeviceContext_encode ==
    MsgWrite(SvhdxTypes, SvhdxOpenDeviceContext_bytes(msg))
SvhdxOpenDeviceContext_decode ==
    MsgRead(SvhdxTypes, SvhdxOpenDeviceContext_read(buf, start, take_end))

InitUnion ==
    /\ pc = "encode"
    /\ msg \in RequestLeaseValues \cup SvhdxValues
    /\ decoded = NoMessage
    /\ start = 0 /\ buf = << >> /\ pos = 0 /\ take_end = 0 /\ result = "none"
    /\ MsgInitRest

NextUnion ==
    \/ RequestLease_encode
    \/ RequestLease_decode
    \/ SvhdxOpenDeviceContext_encode
    \/ SvhdxOpenDeviceContext_decode

SpecUnion == InitUnion /\ [][NextUnion]_vars

\* C11: for every RequestLease and every SvhdxOpenDeviceContext value,
\* decoding its encoding gives the value back, with the same variant.
C11_UnionRoundTrip ==
    pc = "done" => (result = "ok" /\ decoded = msg)

---------------------------------------------------------------------------
(* CreateContext<T> inside a ChainedItem<_, 8>: decode                      *)

CREATE_CONTEXT_PAD == 8

\* the names of make_create_context!: eleven of four bytes, three GUIDs
NameExtA == << 69, 120, 116, 65 >>
NameSecD == << 83, 101, 99, 68 >>
NameDHnQ == << 68, 72, 110, 81 >>
NameDHNc == << 68, 72, 78, 99 >>
NameAlSi == << 65, 108, 83, 105 >>
NameMxAc == << 77, 120, 65, 99 >>
NameTWrp == << 84, 87, 114, 112 >>
NameQFid == << 81, 70, 105, 100 >>
NameRqLs == << 82, 113, 76, 115 >>
NameDH2Q == << 68, 72, 50, 81 >>
NameDH2C == << 68, 72, 50, 67 >>
NameAppInstanceId ==
    << 69, 188, 166, 106, 239, 167, 247, 74, 144, 8, 250, 70, 46, 20, 77, 116 >>
NameAppInstanceVersion ==
    << 185, 130, 208, 183, 59, 86, 7, 79, 160, 123, 82, 74, 129, 22, 160, 16 >>
NameSvhdxOpenDevice ==
    << 156, 203, 207, 158, 4, 193, 230, 67, 152, 14, 21, 141, 161, 246, 236, 131 >>

\* the request table: every entry of make_create_context! has a request type
CreateRequestNames ==
    { NameExtA, NameSecD, NameDHnQ, NameDHNc, NameAlSi, NameMxAc, NameTWrp,
      NameQFid, NameRqLs, NameDH2Q, NameDH2C, NameAppInstanceId,
      NameAppInstanceVersion, NameSvhdxOpenDevice }

\* a as u64 - b as u64: the difference, and whether it went below zero (the
\* u64 then holds 2^64 + diff)
SubU64(a, b) == [diff |-> a - b, under |-> a < b]

\* PosMarker::seek_from(offset): SeekFrom::Start(marker position + offset),
\* the sum taken modulo 2^64 in a build without overflow checks. far: the
\* target is beyond any buffer.
SeekFromTarget(marker, sub) ==
    IF sub.under /\ marker + sub.diff < 0
    THEN [far |-> TRUE, at |-> 0]
    ELSE [far |-> FALSE, at |-> marker + sub.diff]

CREATE_CONTEXT_HEADER_SIZE == 12

\* the position of the first zero byte at or after p inside the view, -1 if
\* there is none
NulAt(b, p, end) ==
    LET S == {q \in p..(Min(end, Len(b)) - 1) : b[q + 1] = 0}
    IN IF S = {} THEN -1 ELSE CHOOSE q \in S : \A r \in S : q <= r

\* ChainedItemList<FileFullEaInformation> from the item at p on: flags u8,
\* ea_name_length u8, ea_value_length u16, ea_name up to its NUL, ea_value
RECURSIVE FileFullEaInformationList_from(_, _, _)
FileFullEaInformationList_from(b, p, end) ==
    LET r0 == ReadExact(b, p, CHAINED_ITEM_PREFIX_SIZE, end)
        k == U32Val(r0.bytes)
        h == ReadExact(b, p + CHAINED_ITEM_PREFIX_SIZE, 4, end)
        nul == NulAt(b, p + 8, end)
        v == ReadExact(b, nul + 1, U16Val(SubSeq(h.bytes, 3, 4)), end)
    IN IF ~r0.ok THEN FALSE
       ELSE IF ~OffsetAligned(k, 4) THEN FALSE
       ELSE IF ~h.ok THEN FALSE
       ELSE IF nul < 0 \/ nul - (p + 8) # h.bytes[2] THEN FALSE
       ELSE IF ~v.ok THEN FALSE
       ELSE IF k = 0 THEN TRUE
       ELSE FileFullEaInformationList_from(b, p + k, end)

\* bit i of a bitfield value
BitSet(v, i) == (v \div (2 ^ i)) % 2 = 1

RECURSIVE U32ListBytes(_)
U32ListBytes(l) ==
    IF l = << >> THEN << >> ELSE U32Bytes(Head(l)) \o U32ListBytes(Tail(l))

RECURSIVE U32ListVal(_)
U32ListVal(b) ==
    IF Len(b) < 4 THEN << >>
    ELSE << U32Val(SubSeq(b, 1, 4)) >> \o U32ListVal(SubSeq(b, 5, Len(b)))

\* SID: revision (asserted to be 1), sub_authority_count, the 6 bytes of
\* identifier_authority, sub_authority_count u32 sub-authorities
SID_FIXED_SIZE == 1 + 1 + 6
SID_write(s) ==
    << 1, Len(s.sub_authority) >> \o s.identifier_authority
        \o U32ListBytes(s.sub_authority)

SID_read(b, p, end) ==
    LET rev == ReadExact(b, p, 1, end)
        h == ReadExact(b, p, SID_FIXED_SIZE, end)
        n == h.bytes[2]
        subs == ReadExact(b, p + SID_FIXED_SIZE, 4 * n, end)
    IN IF ~rev.ok \/ rev.bytes[1] # 1 THEN [ok |-> FALSE, pos |-> p]
       ELSE IF ~h.ok \/ ~subs.ok THEN [ok |-> FALSE, pos |-> p]
       ELSE [ok |-> TRUE,
             val |-> [identifier_authority |-> SubSeq(h.bytes, 3, 8),
                      sub_authority |-> U32ListVal(subs.bytes)],
             pos |-> p + SID_FIXED_SIZE + 4 * n]

\* ACE: ace_type, ace_flags, ace_size (the size of the whole entry), then
\* the body of the entry, kept as its ace_size - 4 bytes
ACE_HEADER_SIZE == 1 + 1 + 2
ACE_write(a) ==
    << a.ace_type, a.ace_flags >> \o U16Bytes(ACE_HEADER_SIZE + Len(a.body)) \o a.body

ACE_read(b, p, end) ==
    LET h == ReadExact(b, p, ACE_HEADER_SIZE, end)
        sz == U16Val(SubSeq(h.bytes, 3, 4))
        body == ReadExact(b, p + ACE_HEADER_SIZE, sz - ACE_HEADER_SIZE, end)
    IN IF ~h.ok \/ sz < ACE_HEADER_SIZE THEN [ok |-> FALSE, pos |-> p]
       ELSE IF ~body.ok THEN [ok |-> FALSE, pos |-> p]
       ELSE [ok |-> TRUE,
             val |-> [ace_type |-> h.bytes[1], ace_flags |-> h.bytes[2],
                      body |-> body.bytes],
             pos |-> p + sz]

RECURSIVE ACEs_write(_)
ACEs_write(l) == IF l = << >> THEN << >> ELSE ACE_write(Head(l)) \o ACEs_write(Tail(l))

RECURSIVE ACEs_read(_, _, _, _)
ACEs_read(b, p, end, n) ==
    IF n = 0 THEN [ok |-> TRUE, val |-> << >>, pos |-> p]
    ELSE AndThen(ACE_read(b, p, end), [ok |-> FALSE, pos |-> p], LAMBDA a :
         AndThen(ACEs_read(b, a.pos, end, n - 1), [ok |-> FALSE, pos |-> p],
                 LAMBDA rest :
             [ok |-> TRUE, val |-> << a.val >> \o rest.val, pos |-> rest.pos]))

\* ACL: acl_revision (2 or 4), sbz1 (asserted 0), acl_size, ace_count, sbz2
\* (asserted 0), then ace_count entries
ACL_HEADER_SIZE == 1 + 1 + 2 + 2 + 2
AclRevisions == {2, 4}
ACL_write(a) ==
    << a.acl_revision, 0 >> \o U16Bytes(ACL_HEADER_SIZE + Len(ACEs_write(a.ace)))
        \o U16Bytes(Len(a.ace)) \o U16Bytes(0) \o ACEs_write(a.ace)

ACL_read(b, p, end) ==
    LET h == ReadExact(b, p, ACL_HEADER_SIZE, end)
        Err == [ok |-> FALSE, pos |-> p]
    IN IF ~h.ok THEN Err
       ELSE IF h.bytes[1] \notin AclRevisions \/ h.bytes[2] # 0 THEN Err
       ELSE IF U16Val(SubSeq(h.bytes, 7, 8)) # 0 THEN Err
       ELSE AndThen(ACEs_read(b, p + ACL_HEADER_SIZE, end,
                              U16Val(SubSeq(h.bytes, 5, 6))), Err, LAMBDA l :
                [ok |-> TRUE, val |-> [acl_revision |-> h.bytes[1], ace |-> l.val],
                 pos |-> l.pos])

\* an absent owner, group, SACL or DACL
NoPart == [none |-> TRUE]

\* SecurityDescriptorControl bits
SecurityDescriptorControlBit(flag) ==
    CASE flag = "dacl_present" -> 2
      [] flag = "sacl_present" -> 4
      [] flag = "self_relative" -> 15

\* SecurityDescriptor: revision (asserted 1), sbz1, control (asserted
\* self-relative), the offsets of owner, group, SACL and DACL from the start
\* of the descriptor, then the parts that are present, in that order
SECURITY_DESCRIPTOR_HEADER_SIZE == 1 + 1 + 2 + 4 * 4
SecurityDescriptor_write(sd) ==
    LET o == IF sd.owner_sid = NoPart THEN << >> ELSE SID_write(sd.owner_sid)
        g == IF sd.group_sid = NoPart THEN << >> ELSE SID_write(sd.group_sid)
        s == IF sd.sacl = NoPart THEN << >> ELSE ACL_write(sd.sacl)
        d == IF sd.dacl = NoPart THEN << >> ELSE ACL_write(sd.dacl)
        at0 == SECURITY_DESCRIPTOR_HEADER_SIZE
        Off(part, at) == IF part = << >> THEN 0 ELSE at
    IN << 1, sd.sbz1 >> \o U16Bytes(sd.control)
        \o U32Bytes(Off(o, at0))
        \o U32Bytes(Off(g, at0 + Len(o)))
        \o U32Bytes(Off(s, at0 + Len(o) + Len(g)))
        \o U32Bytes(Off(d, at0 + Len(o) + Len(g) + Len(s)))
        \o o \o g \o s \o d

\* a part is read where the reader stands when its offset is not 0; a SACL
\* or DACL offset has to agree with the present bit of control
SecurityDescriptor_read(b, p, end) ==
    LET rev == ReadExact(b, p, 1, end)
        c == ReadExact(b, p, 4, end)
        h == ReadExact(b, p, SECURITY_DESCRIPTOR_HEADER_SIZE, end)
        control == U16Val(SubSeq(c.bytes, 3, 4))
        Off(i) == U32Val(SubSeq(h.bytes, 4 * i + 1, 4 * i + 4))
        Absent(at) == [ok |-> TRUE, val |-> NoPart, pos |-> at]
        Err == [ok |-> FALSE, pos |-> p]
    IN IF ~rev.ok \/ rev.bytes[1] # 1 THEN Err
       ELSE IF ~c.ok \/ ~BitSet(control, SecurityDescriptorControlBit("self_relative")) THEN Err
       ELSE IF ~h.ok THEN Err
       ELSE
       AndThen(IF Off(1) = 0 THEN Absent(p + SECURITY_DESCRIPTOR_HEADER_SIZE)
               ELSE SID_read(b, p + SECURITY_DESCRIPTOR_HEADER_SIZE, end),
               Err, LAMBDA o :
       AndThen(IF Off(2) = 0 THEN Absent(o.pos) ELSE SID_read(b, o.pos, end),
               Err, LAMBDA g :
       IF (Off(3) # 0) # BitSet(control, SecurityDescriptorControlBit("sacl_present"))
       THEN Err
       ELSE
       AndThen(IF Off(3) = 0 THEN Absent(g.pos) ELSE ACL_read(b, g.pos, end),
               Err, LAMBDA s :
       IF (Off(4) # 0) # BitSet(control, SecurityDescriptorControlBit("dacl_present"))
       THEN Err
       ELSE
       AndThen(IF Off(4) = 0 THEN Absent(s.pos) ELSE ACL_read(b, s.pos, end),
               Err, LAMBDA d :
           [ok |-> TRUE,
            val |-> [sbz1 |-> c.bytes[2], control |-> control,
                     owner_sid |-> o.val, group_sid |-> g.val,
                     sacl |-> s.val, dacl |-> d.val],
            pos |-> d.pos]))))

\* n bytes of fields that hold any value
FixedData(b, at, n, end) == ReadExact(b, at, n, end).ok

\* structure_size (asserted), then the rest of the n bytes
SizedData(b, at, n, end) ==
    LET sz == ReadExact(b, at, 2, end)
    IN sz.ok /\ U16Val(sz.bytes) = n /\ ReadExact(b, at, n, end).ok

\* (mutant) a name outside the table is taken as an opaque value
ContextDataRead_Opaque(b, name, at, len, end) ==
    IF name = NameAlSi THEN ReadExact(b, at, 8, Min(end, at + len)).ok
    ELSE TRUE

\* the request data enum CreateContextRequestData: the variant whose
\* pre_assert on the name holds is read inside the view of len bytes at `at`;
\* no variant is without a pre_assert
ContextDataRead(b, name, at, len, end) ==
    LET inner == Min(end, at + len)
        dhnq == ReadExact(b, at, 16, inner)
    IN CASE name = NameExtA ->
              len = 0 \/ FileFullEaInformationList_from(b, at, inner)
         [] name = NameSecD -> SecurityDescriptor_read(b, at, inner).ok
         [] name = NameDHnQ -> dhnq.ok /\ dhnq.bytes = Zeros(16)
         [] name = NameDHNc -> FixedData(b, at, 16, inner)
         [] name = NameAlSi -> FixedData(b, at, 8, inner)
         [] name = NameMxAc -> len = 0 \/ FixedData(b, at, 8, inner)
         [] name = NameTWrp -> FixedData(b, at, 8, inner)
         [] name = NameQFid -> TRUE
         [] name = NameRqLs -> RequestLease_read(b, at, inner).ok
         [] name = NameDH2Q -> FixedData(b, at, 32, inner)
         [] name = NameDH2C -> FixedData(b, at, 36, inner)
         [] name = NameAppInstanceId -> SizedData(b, at, 20, inner)
         [] name = NameAppInstanceVersion -> SizedData(b, at, 24, inner)
         [] name = NameSvhdxOpenDevice ->
              SvhdxOpenDeviceContext_read(b, at, inner).ok
         [] OTHER -> FALSE

\* BinRead of one ChainedItem<CreateContext<_>, 8> at p in a build `bld`:
\* where it stopped (stage), with what (res, fail), and what it had read.
\*   header: next_entry_offset, its assert, the five fixed fields;
\*   name:   seek_before, align_before = 8, count = name_length;
\*   data:   seek_before (only if data_length > 0), take_seek(data_length),
\*           the data, the assert on _data_offset; then the seek to the
\*           next entry.
\* An error rewinds the reader to p.
CreateContext_read(b, p, end, bld) ==
    LET q == p + CHAINED_ITEM_PREFIX_SIZE
        Out(stage, res, fail, hd, wn, wd, at) ==
            [stage |-> stage, res |-> res, fail |-> fail, hdr |-> hd,
             wrapped_name |-> wn, wrapped_data |-> wd, pos |-> at]
    IN With(ReadExact(b, p, CHAINED_ITEM_PREFIX_SIZE, end), LAMBDA r0 :
       IF ~r0.ok THEN Out("header", "err", "eof", NoHeader, FALSE, FALSE, p)
       ELSE IF ~OffsetAligned(U32Val(r0.bytes), CREATE_CONTEXT_PAD)
       THEN Out("header", "err", "assert", NoHeader, FALSE, FALSE, p)
       ELSE
       With(ReadExact(b, q, CREATE_CONTEXT_HEADER_SIZE, end), LAMBDA h :
       IF ~h.ok THEN Out("header", "err", "eof", NoHeader, FALSE, FALSE, p)
       ELSE
       With([name_offset |-> U16Val(SubSeq(h.bytes, 1, 2)),
             name_length |-> U16Val(SubSeq(h.bytes, 3, 4)),
             data_offset |-> U16Val(SubSeq(h.bytes, 7, 8)),
             data_length |-> U32Val(SubSeq(h.bytes, 9, 12)),
             marker |-> q,
             name |-> << >>], LAMBDA hdr :
       With(SubU64(hdr.name_offset, CHAINED_ITEM_PREFIX_SIZE), LAMBDA nsub :
       IF nsub.under /\ bld = "debug"
       THEN Out("name", "panic", "", hdr, FALSE, FALSE, q + CREATE_CONTEXT_HEADER_SIZE)
       ELSE
       With(SeekFromTarget(q, nsub), LAMBDA ntgt :
       With(ntgt.at + AlignPadding(ntgt.at, 8), LAMBDA nat :
       With(ReadExact(b, nat, hdr.name_length, end), LAMBDA nr :
       IF ntgt.far \/ ~nr.ok
       THEN Out("name", "err", "eof", hdr, nsub.under, FALSE, p)
       ELSE
       With([hdr EXCEPT !.name = nr.bytes], LAMBDA named :
       With(SubU64(hdr.data_offset, CHAINED_ITEM_PREFIX_SIZE), LAMBDA dsub :
       IF dsub.under /\ bld = "debug"
       THEN Out("data", "panic", "", named, nsub.under, FALSE, nat + hdr.name_length)
       ELSE
       With(IF hdr.data_length > 0 THEN SeekFromTarget(q, dsub)
            ELSE [far |-> FALSE, at |-> nat + hdr.name_length], LAMBDA dtgt :
       IF dtgt.far
             \/ ~ContextDataRead(b, nr.bytes, dtgt.at, hdr.data_length, end)
       THEN Out("data", "err", "body", named, nsub.under, dsub.under, p)
       ELSE IF hdr.data_offset % 8 # 0
       THEN Out("data", "err", "assert", named, nsub.under, dsub.under, p)
       ELSE Out("data", "ok", "", named, nsub.under, dsub.under,
                SeekRelative(p, U32Val(r0.bytes)))))))))))))

\* the position behind the name of the item at p
CreateContextNameEnd(b, p) ==
    LET q == p + CHAINED_ITEM_PREFIX_SIZE
        tgt == SeekFromTarget(q, SubU64(U16Val(SubSeq(b, q + 1, q + 2)),
                                        CHAINED_ITEM_PREFIX_SIZE))
    IN tgt.at + AlignPadding(tgt.at, 8) + U16Val(SubSeq(b, q + 3, q + 4))

\* the ChainedItem prefix and the fixed fields of the CreateContext
cc_read_header ==
    /\ pc = "cc_header"
    /\ With(CreateContext_read(buf, pos, take_end, build), LAMBDA r :
          IF r.stage = "header"
          THEN /\ pc' = "done" /\ result' = r.res /\ failAt' = r.fail
               /\ UNCHANGED << cc, pos, starts >>
          ELSE /\ pc' = "cc_name"
               /\ cc' = [r.hdr EXCEPT !.name = << >>]
               /\ pos' = pos + CHAINED_ITEM_PREFIX_SIZE + CREATE_CONTEXT_HEADER_SIZE
               /\ starts' = Append(starts, pos)
               /\ UNCHANGED << result, failAt >>)
    /\ UNCHANGED << OFFSET_PAD, start, value, buf, take_end, idx, markers, offsets,
                    items, readHi, lastHi, build, wrapped >>
    /\ UNCHANGED << encVars, msgVars, mkVars >>

\* field `name`
cc_read_name ==
    /\ pc = "cc_name"
    /\ With(CreateContext_read(buf, starts[Len(starts)], take_end, build),
            LAMBDA r :
          IF r.stage = "name"
          THEN /\ pc' = "done" /\ result' = r.res
               /\ wrapped' = (wrapped \/ r.wrapped_name)
               /\ pos' = IF r.res = "panic" THEN pos ELSE r.pos
               /\ failAt' = IF r.res = "panic" THEN failAt ELSE r.fail
               /\ UNCHANGED cc
          ELSE /\ pc' = "cc_data"
               /\ wrapped' = (wrapped \/ r.wrapped_name)
               /\ cc' = r.hdr
               /\ pos' = CreateContextNameEnd(buf, starts[Len(starts)])
               /\ UNCHANGED << result, failAt >>)
    /\ UNCHANGED << OFFSET_PAD, start, value, buf, take_end, idx, markers, offsets,
                    items, starts, readHi, lastHi, build >>
    /\ UNCHANGED << encVars, msgVars, mkVars >>

\* field `data`, then the seek of the ChainedItem to its next entry
cc_read_data ==
    /\ pc = "cc_data"
    /\ With(CreateContext_read(buf, starts[Len(starts)], take_end, build),
            LAMBDA r :
          /\ pc' = "done"
          /\ result' = r.res
          /\ wrapped' = (wrapped \/ r.wrapped_data)
          /\ pos' = IF r.res = "panic" THEN pos ELSE r.pos
          /\ failAt' = IF r.res = "err" THEN r.fail ELSE failAt
          /\ items' = IF r.res = "ok"
                      THEN << [name |-> cc.name, data_length |-> cc.data_length] >>
                      ELSE items)
    /\ UNCHANGED << OFFSET_PAD, start, value, buf, take_end, idx, markers, offsets,
                    starts, readHi, lastHi, build, cc >>
    /\ UNCHANGED << encVars, msgVars, mkVars >>

\* one create context on the wire, with the given header values
CreateContextBytes(no, nl, do, dl, name) ==
    U32Bytes(0) \o U16Bytes(no) \o U16Bytes(nl) \o U16Bytes(0) \o U16Bytes(do)
    \o U32Bytes(dl) \o name \o Zeros(4) \o U32Bytes(7) \o Zeros(28)

HeaderOffsets == {0, 3, 4, 16, 24}

InitCC ==
    /\ pc = "cc_header"
    /\ build \in {"debug", "release"}
    /\ start \in {0, 8}
    /\ \E no \in HeaderOffsets, nl \in {0, 4}, do \in HeaderOffsets,
          dl \in {0, 8, 32}, name \in {NameAlSi, NameQFid, NameDH2Q, NameMxAc} :
          buf = Zeros(start) \o CreateContextBytes(no, nl, do, dl, name)
    /\ pos = start
    /\ take_end = Len(buf)
    /\ cc = NoHeader
    /\ wrapped = FALSE
    /\ OFFSET_PAD = CREATE_CONTEXT_PAD /\ value = << >>
    /\ idx = 0 /\ markers = << >> /\ offsets = << >>
    /\ items = << >> /\ starts = << >> /\ result = "none"
    /\ readHi = 0 /\ lastHi = 0 /\ failAt = ""
    /\ kind = "" /\ plen = 0 /\ plen2 = 0 /\ lenField = -1
    /\ msg = NoMessage /\ decoded = NoMessage
    /\ NoMarkers

NextCC ==
    \/ cc_read_header
    \/ cc_read_name
    \/ cc_read_data

SpecCC == InitCC /\ [][NextCC]_vars

\* C9: decoding a CreateContext ends with a value or a decode error for every
\* name_offset and data_offset; offset - CHAINED_ITEM_PREFIX_SIZE never
\* aborts and never wraps.
C9_NoPanic ==
    /\ result \in {"none", "ok", "err"}
    /\ ~wrapped

---------------------------------------------------------------------------
(* SetInfoRequest                                                           *)

SET_INFO_STRUCTURE_SIZE == 33
SET_INFO_FIXED_SIZE == 32

\* InfoType on the wire (u8)
InfoTypeOf(variant) ==
    CASE variant = "File" -> 1
      [] variant = "FileSystem" -> 2
      [] variant = "Security" -> 3
      [] variant = "Quota" -> 4

InfoTypeVariant(b) ==
    CASE b = 1 -> "File"
      [] b = 2 -> "FileSystem"
      [] b = 3 -> "Security"
      [] b = 4 -> "Quota"
      [] OTHER -> ""

\* class codes (u8) of SetFileInfoClass and SetFileSystemInfoClass
SetFileInfoClasses == {4, 10, 13, 20}
SetFileSystemInfoClasses == {6, 8}

\* SetInfoClass: File(c) and FileSystem(c) write the class code, Security
\* and Quota write the NullByte
SetInfoClass_write(c) ==
    IF c.variant \in {"File", "FileSystem"} THEN << c.code >> ELSE << 0 >>

\* SetInfoClass has no discriminant of its own: the variants are tried in
\* declaration order on the one byte
SetInfoClass_read(b) ==
    IF b \in SetFileInfoClasses THEN [ok |-> TRUE, val |-> [variant |-> "File", code |-> b]]
    ELSE IF b \in SetFileSystemInfoClasses
    THEN [ok |-> TRUE, val |-> [variant |-> "FileSystem", code |-> b]]
    ELSE IF b = 0 THEN [ok |-> TRUE, val |-> [variant |-> "Security", code |-> 0]]
    ELSE IF b = 0 THEN [ok |-> TRUE, val |-> [variant |-> "Quota", code |-> 0]]
    ELSE [ok |-> FALSE, val |-> [variant |-> "", code |-> b]]

\* FileQuotaInformation: sid_length, change_time, quota_used,
\* quota_threshold, quota_limit, then the SID read through
\* take_seek(sid_length)
FILE_QUOTA_FIXED_SIZE == 4 + 4 * 8
FileQuotaInformation_write(q) ==
    U32Bytes(Len(SID_write(q.sid))) \o U64Bytes(q.change_time)
        \o U64Bytes(q.quota_used) \o U64Bytes(q.quota_threshold)
        \o U64Bytes(q.quota_limit) \o SID_write(q.sid)

FileQuotaInformation_read(b, p, end) ==
    LET h == ReadExact(b, p, FILE_QUOTA_FIXED_SIZE, end)
        q == p + FILE_QUOTA_FIXED_SIZE
    IN IF ~h.ok THEN [ok |-> FALSE, pos |-> p]
       ELSE AndThen(SID_read(b, q, Min(end, q + U32Val(SubSeq(h.bytes, 1, 4)))),
                    [ok |-> FALSE, pos |-> p], LAMBDA sid :
                [ok |-> TRUE,
                 val |-> [change_time |-> U64Val(SubSeq(h.bytes, 5, 12)),
                          quota_used |-> U64Val(SubSeq(h.bytes, 13, 20)),
                          quota_threshold |-> U64Val(SubSeq(h.bytes, 21, 28)),
                          quota_limit |-> U64Val(SubSeq(h.bytes, 29, 36)),
                          sid |-> sid.val],
                 pos |-> sid.pos])

\* write_chained of a ChainedItemList<FileQuotaInformation> at the absolute
\* position p: every item but the last is padded to the default OFFSET_PAD
\* and gets the distance to the next item as its next_entry_offset
RECURSIVE FileQuotaInformationList_write(_, _)
FileQuotaInformationList_write(l, p) ==
    IF l = << >> THEN << >>
    ELSE LET body == FileQuotaInformation_write(Head(l))
             p2 == p + CHAINED_ITEM_PREFIX_SIZE + Len(body)
             padn == AlignPadding(p2, 4)
         IN IF Len(l) = 1 THEN Zeros(CHAINED_ITEM_PREFIX_SIZE) \o body
            ELSE U32Bytes(WriteRoffValue(p2 + padn, p)) \o body \o Zeros(padn)
                     \o FileQuotaInformationList_write(Tail(l), p2 + padn)

\* the loop of read_chained over FileQuotaInformation items: pos is where
\* the reader is left, at the start of the last item
RECURSIVE FileQuotaInformationList_from(_, _, _)
FileQuotaInformationList_from(b, p, end) ==
    LET r0 == ReadExact(b, p, CHAINED_ITEM_PREFIX_SIZE, end)
        Err == [ok |-> FALSE, pos |-> p]
    IN IF ~r0.ok THEN Err
       ELSE IF ~OffsetAligned(U32Val(r0.bytes), 4) THEN Err
       ELSE
       AndThen(FileQuotaInformation_read(b, p + CHAINED_ITEM_PREFIX_SIZE, end),
               Err, LAMBDA t :
       IF SeekRelative(p, U32Val(r0.bytes)) = p
       THEN [ok |-> TRUE, val |-> << t.val >>, pos |-> p]
       ELSE
       With(FileQuotaInformationList_from(b, SeekRelative(p, U32Val(r0.bytes)), end),
            LAMBDA rest :
           IF ~rest.ok THEN rest
           ELSE [ok |-> TRUE, val |-> << t.val >> \o rest.val, pos |-> rest.pos]))

FileQuotaInformationList_read(b, p, end) ==
    IF p = StreamEnd(b, end) THEN [ok |-> TRUE, val |-> << >>, pos |-> p]
    ELSE FileQuotaInformationList_from(b, p, end)

\* SetInfoData written at the absolute position p
SetInfoData_write(d, p) ==
    CASE d.variant \in {"File", "FileSystem"} -> d.bytes
      [] d.variant = "Security" -> SecurityDescriptor_write(d.sd)
      [] d.variant = "Quota" -> FileQuotaInformationList_write(d.list, p)

\* SetInfoData read with the argument info_type: the variant whose
\* pre_assert matches is the only one tried. The raw File and FileSystem data
\* are the bytes up to the end of the view
SetInfoData_read(b, p, end, variant) ==
    CASE variant \in {"File", "FileSystem"} ->
           With(SubSeq(b, p + 1, Min(end, Len(b))), LAMBDA raw :
               [ok |-> TRUE, val |-> [variant |-> variant, bytes |-> raw],
                pos |-> p + Len(raw)])
      [] variant = "Security" ->
           AndThen(SecurityDescriptor_read(b, p, end), [ok |-> FALSE, pos |-> p],
                   LAMBDA sd :
               [ok |-> TRUE, val |-> [variant |-> variant, sd |-> sd.val],
                pos |-> sd.pos])
      [] variant = "Quota" ->
           AndThen(FileQuotaInformationList_read(b, p, end),
                   [ok |-> FALSE, pos |-> p], LAMBDA ql :
               [ok |-> TRUE, val |-> [variant |-> variant, list |-> ql.val],
                pos |-> ql.pos])

\* the fixed part is written with zero placeholders for buffer_length and
\* _buffer_offset; write_aoff_size writes data and back-patches the absolute
\* position of data and its size
SetInfoRequest_bytes(x, p0) ==
    LET data == SetInfoData_write(x.data, p0 + SET_INFO_FIXED_SIZE)
    IN U16Bytes(SET_INFO_STRUCTURE_SIZE) \o << InfoTypeOf(x.data.variant) >>
        \o SetInfoClass_write(x.info_class)
        \o U32Bytes(Len(data)) \o U16Bytes(p0 + SET_INFO_FIXED_SIZE)
        \o U16Bytes(0) \o U32Bytes(x.additional_information)
        \o U128Bytes(x.file_id) \o data

\* the fields are read in order: structure size (asserted), info_type,
\* info_class, the rest of the fixed part, then data through
\* take_seek(buffer_length) at the position the fixed part ends at, with
\* info_type as the argument that selects the variant
SetInfoRequest_read(b, p, end) ==
    LET sz == ReadExact(b, p, 2, end)
        it == ReadExact(b, p + 2, 1, end)
        ic == ReadExact(b, p + 3, 1, end)
        r == ReadExact(b, p, SET_INFO_FIXED_SIZE, end)
        q == p + SET_INFO_FIXED_SIZE
    IN IF ~sz.ok \/ U16Val(sz.bytes) # SET_INFO_STRUCTURE_SIZE THEN ReadErr
       ELSE IF ~it.ok \/ InfoTypeVariant(it.bytes[1]) = "" THEN ReadErr
       ELSE IF ~ic.ok \/ ~SetInfoClass_read(ic.bytes[1]).ok THEN ReadErr
       ELSE IF ~r.ok THEN ReadErr
       ELSE AndThen(SetInfoData_read(b, q, Min(end, q + U32Val(SubSeq(r.bytes, 5, 8))),
                                     InfoTypeVariant(it.bytes[1])),
                    ReadErr, LAMBDA d :
                [ok |-> TRUE,
                 val |-> [type |-> "SetInfoRequest",
                          info_class |-> SetInfoClass_read(ic.bytes[1]).val,
                          additional_information |-> U32Val(SubSeq(r.bytes, 13, 16)),
                          file_id |-> U128Val(SubSeq(r.bytes, 17, 32)),
                          data |-> d.val],
                 pos |-> d.pos])

SetInfoClassValues ==
    [variant : {"File"}, code : SetFileInfoClasses]
    \cup [variant : {"FileSystem"}, code : SetFileSystemInfoClasses]
    \cup [variant : {"Security", "Quota"}, code : {0}]

SetInfoPayloads == {<< >>, << 1 >>, << 0, 0, 0, 0, 7, 0, 0, 0 >>}

SidValues ==
    { [identifier_authority |-> << 0, 0, 0, 0, 0, 5 >>, sub_authority |-> subs] :
      subs \in {<< 18 >>, << 32, 544 >>} }

AclValues ==
    { [acl_revision |-> 2, ace |-> aces] :
      aces \in {<< >>,
                << [ace_type |-> 0, ace_flags |-> 0,
                    body |-> U32Bytes(2032127)
                               \o SID_write([identifier_authority |-> << 0, 0, 0, 0, 0, 1 >>,
                                             sub_authority |-> << 0 >>])] >>} }

\* self-relative descriptors whose present bits agree with their parts
SecurityDescriptorValues ==
    { [sbz1 |-> 0,
       control |-> 32768 + (IF d = NoPart THEN 0 ELSE 4),
       owner_sid |-> o, group_sid |-> g, sacl |-> NoPart, dacl |-> d] :
      o \in SidValues \cup {NoPart}, g \in {NoPart, CHOOSE x \in SidValues : TRUE},
      d \in AclValues \cup {NoPart} }

QuotaValues ==
    { [change_time |-> U64(0), quota_used |-> U64(u), quota_threshold |-> U64(4096),
       quota_limit |-> U64(1048576), sid |-> s] :
      u \in {0, 7}, s \in SidValues }

SetInfoDataValues(variant) ==
    CASE variant \in {"File", "FileSystem"} ->
              { [variant |-> variant, bytes |-> d] : d \in SetInfoPayloads }
      [] variant = "Security" ->
              { [variant |-> variant, sd |-> sd] : sd \in SecurityDescriptorValues }
      [] variant = "Quota" ->
              { [variant |-> variant, list |-> l] : l \in SeqsUpTo(QuotaValues, MaxItems) }

\* SetInfoData::to_req: the class and the data have to be of the same kind
SetInfoRequestValues ==
    UNION { { [type |-> "SetInfoRequest", info_class |-> c,
               additional_information |-> a, file_id |-> U128(66), data |-> d] :
              a \in {0, 4}, d \in SetInfoDataValues(c.variant) } :
            c \in SetInfoClassValues }

SetInfoRequest_encode ==
    MsgWrite({"SetInfoRequest"}, SetInfoRequest_bytes(msg, start))
SetInfoRequest_decode ==
    MsgRead({"SetInfoRequest"}, SetInfoRequest_read(buf, start, take_end))

HeaderSizes == {0, 64}

InitSetInfo ==
    /\ pc = "encode"
    /\ msg \in SetInfoRequestValues
    /\ decoded = NoMessage
    /\ start \in HeaderSizes
    /\ buf = << >> /\ pos = 0 /\ take_end = 0 /\ result = "none"
    /\ MsgInitRest

NextSetInfo == SetInfoRequest_encode \/ SetInfoRequest_decode

SpecSetInfo == InitSetInfo /\ [][NextSetInfo]_vars

\* C12: every SetInfoRequest made by SetInfoData::to_req decodes from its
\* encoding to the same request, info_class variant included.
C12_SetInfoRoundTrip ==
    pc = "done" => (result = "ok" /\ decoded = msg)

---------------------------------------------------------------------------
(* NegotiateContext and NegotiateRequest                                    *)

NEGOTIATE_STRUCTURE_SIZE == 36
NEGOTIATE_CONTEXT_ALIGN == 8
NEGOTIATE_CONTEXT_HEADER == 8
Smb0202 == 514
Smb021 == 528
Smb0311 == 785
Dialects == {514, 528, 768, 770, 785}

\* negotiate_context_type!: the seven known context types
NegotiateContextTypes == {1, 2, 3, 5, 6, 7, 8}
PreauthIntegrityCapabilitiesId == 1
EncryptionCapabilitiesId == 2
CompressionCapabilitiesId == 3
NetnameNegotiateContextIdId == 5
TransportCapabilitiesId == 6
RdmaTransformCapabilitiesId == 7
SigningCapabilitiesId == 8

\* NegotiateContextValue::get_matching_type
get_matching_type(variant) ==
    CASE variant = "PreauthIntegrityCapabilities" -> PreauthIntegrityCapabilitiesId
      [] variant = "EncryptionCapabilities" -> EncryptionCapabilitiesId
      [] variant = "CompressionCapabilities" -> CompressionCapabilitiesId
      [] variant = "NetnameNegotiateContextId" -> NetnameNegotiateContextIdId
      [] variant = "TransportCapabilities" -> TransportCapabilitiesId
      [] variant = "RdmaTransformCapabilities" -> RdmaTransformCapabilitiesId
      [] variant = "SigningCapabilities" -> SigningCapabilitiesId

\* the variant the pre_assert on context_type selects
NegotiateContextVariant(t) ==
    CASE t = PreauthIntegrityCapabilitiesId -> "PreauthIntegrityCapabilities"
      [] t = EncryptionCapabilitiesId -> "EncryptionCapabilities"
      [] t = CompressionCapabilitiesId -> "CompressionCapabilities"
      [] t = NetnameNegotiateContextIdId -> "NetnameNegotiateContextId"
      [] t = TransportCapabilitiesId -> "TransportCapabilities"
      [] t = RdmaTransformCapabilitiesId -> "RdmaTransformCapabilities"
      [] t = SigningCapabilitiesId -> "SigningCapabilities"
      [] OTHER -> ""

\* the variant of the data a context value holds: the field `variant` when
\* the value names it beside context_type, the one of context_type otherwise
DataVariant(c) ==
    IF "variant" \in DOMAIN c THEN c.variant ELSE NegotiateContextVariant(c.ctype)

\* ids the list of a variant may hold: HashAlgorithm, EncryptionCipher,
\* CompressionAlgorithm, RdmaTransformId, SigningAlgorithmId
ContextIds(v) ==
    CASE v = "PreauthIntegrityCapabilities" -> {1}
      [] v = "EncryptionCapabilities" -> 1..4
      [] v = "CompressionCapabilities" -> 0..5
      [] OTHER -> 0..2

RECURSIVE U16ListBytes(_)
U16ListBytes(l) ==
    IF l = << >> THEN << >> ELSE U16Bytes(Head(l)) \o U16ListBytes(Tail(l))

\* BinWrite of the data of a context, by variant:
\*   PreauthIntegrityCapabilities: counts of both lists, algorithms, salt
\*   Encryption / SigningCapabilities: count, ids
\*   CompressionCapabilities: count, _padding, flags, ids
\*   NetnameNegotiateContextId: the code units of netname
\*   TransportCapabilities: the flags
\*   RdmaTransformCapabilities: count, reserved1, reserved2, ids
ContextValue_write(c) ==
    LET v == DataVariant(c)
    IN CASE v = "PreauthIntegrityCapabilities" ->
              U16Bytes(Len(c.list)) \o U16Bytes(Len(c.salt))
                  \o U16ListBytes(c.list) \o c.salt
         [] v = "CompressionCapabilities" ->
              U16Bytes(Len(c.list)) \o U16Bytes(0) \o U32Bytes(c.flags)
                  \o U16ListBytes(c.list)
         [] v = "NetnameNegotiateContextId" -> WideBytes(c.netname)
         [] v = "TransportCapabilities" -> U32Bytes(c.flags)
         [] v = "RdmaTransformCapabilities" ->
              U16Bytes(Len(c.list)) \o U16Bytes(0) \o U32Bytes(0)
                  \o U16ListBytes(c.list)
         [] OTHER -> U16Bytes(Len(c.list)) \o U16ListBytes(c.list)

\* (mutant) data_length is filled with the size of the whole context
WriteSizeValue_Whole(after, before) == after - before + NEGOTIATE_CONTEXT_HEADER

\* PosMarker::write_size: the value is the number of bytes the payload's
\* write moved the stream by
WriteSizeValue(after, before) == after - before

\* NegotiateContext at position p: align_before = 8, context_type,
\* data_length placeholder, _reserved, data; data_length is back-patched
NegotiateContext_write(p, c) ==
    LET pad == AlignPadding(p, NEGOTIATE_CONTEXT_ALIGN)
        before == p + pad + NEGOTIATE_CONTEXT_HEADER
        data == ContextValue_write(c)
    IN Zeros(pad) \o U16Bytes(c.ctype)
           \o U16Bytes(WriteSizeValue(before + Len(data), before))
           \o U32Bytes(0) \o data

RECURSIVE NegotiateContexts_write(_, _)
NegotiateContexts_write(p, l) ==
    IF l = << >> THEN << >>
    ELSE LET h == NegotiateContext_write(p, Head(l))
         IN h \o NegotiateContexts_write(p + Len(h), Tail(l))

\* n ids of variant v read through a view that ends at `end`
RECURSIVE ReadIds(_, _, _, _, _)
ReadIds(b, p, n, end, v) ==
    IF n = 0 THEN [ok |-> TRUE, list |-> << >>, pos |-> p]
    ELSE LET r == ReadExact(b, p, 2, end)
             rest == ReadIds(b, p + 2, n - 1, end, v)
         IN IF ~r.ok \/ U16Val(r.bytes) \notin ContextIds(v) \/ ~rest.ok
            THEN [ok |-> FALSE, list |-> << >>, pos |-> p]
            ELSE [ok |-> TRUE, list |-> << U16Val(r.bytes) >> \o rest.list,
                  pos |-> rest.pos]

\* binrw::helpers::until_eof over u16: code units up to the end of the
\* view or of the buffer; a last odd byte is left unread
UntilEofUnits(b, p, end) ==
    LET n == Min(TakeSeekLimit(end, p), CursorRemaining(b, p)) \div 2
    IN [list |-> WideUnits(SubSeq(b, p + 1, p + 2 * n)), pos |-> p + 2 * n]

\* NegotiateContextValue: the variant whose pre_assert matches context_type
\* t, read at p through the view ending at `end`; val holds the fields
ContextValue_read(b, p, end, t) ==
    LET v == NegotiateContextVariant(t)
        fail == [ok |-> FALSE, val |-> NoMessage, pos |-> p]
        c2 == ReadExact(b, p, 2, end)
        c4 == ReadExact(b, p, 4, end)
        c8 == ReadExact(b, p, 8, end)
        n == U16Val(SubSeq(c2.bytes, 1, 2))
    IN CASE v = "PreauthIntegrityCapabilities" ->
              IF ~c4.ok THEN fail
              ELSE AndThen(ReadIds(b, p + 4, n, end, v), fail, LAMBDA algos :
                   AndThen(ReadExact(b, algos.pos, U16Val(SubSeq(c4.bytes, 3, 4)), end),
                           fail, LAMBDA salt :
                       [ok |-> TRUE, pos |-> algos.pos + Len(salt.bytes),
                        val |-> [ctype |-> t, list |-> algos.list,
                                 salt |-> salt.bytes]]))
         [] v \in {"EncryptionCapabilities", "SigningCapabilities"} ->
              IF ~c2.ok THEN fail
              ELSE AndThen(ReadIds(b, p + 2, n, end, v), fail, LAMBDA ids :
                       [ok |-> TRUE, pos |-> ids.pos,
                        val |-> [ctype |-> t, list |-> ids.list]])
         [] v = "CompressionCapabilities" ->
              IF ~c8.ok THEN fail
              ELSE AndThen(ReadIds(b, p + 8, n, end, v), fail, LAMBDA ids :
                       [ok |-> TRUE, pos |-> ids.pos,
                        val |-> [ctype |-> t, list |-> ids.list,
                                 flags |-> U32Val(SubSeq(c8.bytes, 5, 8))]])
         [] v = "NetnameNegotiateContextId" ->
              With(UntilEofUnits(b, p, end), LAMBDA name :
                  [ok |-> TRUE, pos |-> name.pos,
                   val |-> [ctype |-> t, netname |-> name.list]])
         [] v = "TransportCapabilities" ->
              IF ~c4.ok THEN fail
              ELSE [ok |-> TRUE, pos |-> p + 4,
                    val |-> [ctype |-> t, flags |-> U32Val(c4.bytes)]]
         [] v = "RdmaTransformCapabilities" ->
              IF ~c8.ok THEN fail
              ELSE AndThen(ReadIds(b, p + 8, n, end, v), fail, LAMBDA ids :
                       [ok |-> TRUE, pos |-> ids.pos,
                        val |-> [ctype |-> t, list |-> ids.list]])
         [] OTHER -> fail

\* NegotiateContext: align_before = 8, context_type (a known type),
\* data_length, _reserved; data is read through take_seek(data_length)
NegotiateContext_read(b, p, end) ==
    LET q == p + AlignPadding(p, NEGOTIATE_CONTEXT_ALIGN)
        ty == ReadExact(b, q, 2, end)
        h == ReadExact(b, q, NEGOTIATE_CONTEXT_HEADER, end)
        d == q + NEGOTIATE_CONTEXT_HEADER
        Fail(why) == [ok |-> FALSE, why |-> why, val |-> NoMessage, pos |-> p]
    IN IF ~ty.ok THEN Fail("eof")
       ELSE IF U16Val(ty.bytes) \notin NegotiateContextTypes THEN Fail("type")
       ELSE IF ~h.ok THEN Fail("eof")
       ELSE AndThen(ContextValue_read(b, d, Min(end, d + U16Val(SubSeq(h.bytes, 3, 4))),
                                      U16Val(ty.bytes)),
                    Fail("data"), LAMBDA v :
                [ok |-> TRUE, why |-> "", val |-> v.val, pos |-> v.pos])

RECURSIVE NegotiateContexts_read(_, _, _, _)
NegotiateContexts_read(b, p, n, end) ==
    IF n = 0 THEN [ok |-> TRUE, why |-> "", list |-> << >>, pos |-> p]
    ELSE With(NegotiateContext_read(b, p, end), LAMBDA h :
         IF ~h.ok THEN [ok |-> FALSE, why |-> h.why, list |-> << >>, pos |-> p]
         ELSE With(NegotiateContexts_read(b, h.pos, n - 1, end), LAMBDA rest :
              IF ~rest.ok THEN rest
              ELSE [ok |-> TRUE, why |-> "", list |-> << h.val >> \o rest.list,
                    pos |-> rest.pos]))

HasSmb0311(dialects) == \E i \in 1..Len(dialects) : dialects[i] = Smb0311

\* Option<Vec<NegotiateContext>>::len, 0 for None
ContextCount(l) == IF l.some THEN Len(l.v) ELSE 0

\* the list is written (aligned to 8, its offset back-patched by write_aoff)
\* only when dialects contains Smb0311; the count is computed either way
NegotiateRequest_bytes(x, p0) ==
    LET fixedEnd == p0 + NEGOTIATE_STRUCTURE_SIZE + 2 * Len(x.dialects)
        pad == AlignPadding(fixedEnd, NEGOTIATE_CONTEXT_ALIGN)
        with == HasSmb0311(x.dialects)
    IN U16Bytes(NEGOTIATE_STRUCTURE_SIZE) \o U16Bytes(Len(x.dialects))
           \o U16Bytes(x.security_mode) \o U16Bytes(0)
           \o U32Bytes(x.capabilities) \o U128Bytes(x.client_guid)
           \o U32Bytes(IF with THEN fixedEnd + pad ELSE 0)
           \o U16Bytes(ContextCount(x.negotiate_context_list)) \o U16Bytes(0)
           \o U16ListBytes(x.dialects)
           \o (IF with
               THEN Zeros(pad)
                        \o (IF x.negotiate_context_list.some
                            THEN NegotiateContexts_write(fixedEnd + pad,
                                                         x.negotiate_context_list.v)
                            ELSE << >>)
               ELSE << >>)

RECURSIVE ReadDialects(_, _, _, _)
ReadDialects(b, p, n, end) ==
    IF n = 0 THEN [ok |-> TRUE, list |-> << >>]
    ELSE LET r == ReadExact(b, p, 2, end)
             rest == ReadDialects(b, p + 2, n - 1, end)
         IN IF ~r.ok \/ U16Val(r.bytes) \notin Dialects \/ ~rest.ok
            THEN [ok |-> FALSE, list |-> << >>]
            ELSE [ok |-> TRUE, list |-> << U16Val(r.bytes) >> \o rest.list]

\* negotiate_context_list: if dialects contains Smb0311, seek to
\* negotiate_context_offset, align to 8 and read negotiate_context_count
\* contexts (Some); otherwise the default, None
NegotiateRequest_read(b, p, end) ==
    LET r == ReadExact(b, p, NEGOTIATE_STRUCTURE_SIZE, end)
        off == U32Val(SubSeq(r.bytes, 29, 32))
        Message(d, pos_, list) ==
            [ok |-> TRUE, pos |-> pos_,
             val |-> [type |-> "NegotiateRequest",
                      security_mode |-> U16Val(SubSeq(r.bytes, 5, 6)),
                      capabilities |-> U32Val(SubSeq(r.bytes, 9, 12)),
                      client_guid |-> U128Val(SubSeq(r.bytes, 13, 28)),
                      dialects |-> d.list,
                      negotiate_context_list |-> list]]
    IN IF ~r.ok THEN ReadErr
       ELSE IF U16Val(SubSeq(r.bytes, 1, 2)) # NEGOTIATE_STRUCTURE_SIZE THEN ReadErr
       ELSE
       AndThen(ReadDialects(b, p + NEGOTIATE_STRUCTURE_SIZE,
                            U16Val(SubSeq(r.bytes, 3, 4)), end), ReadErr, LAMBDA d :
       IF ~HasSmb0311(d.list)
       THEN Message(d, p + NEGOTIATE_STRUCTURE_SIZE + 2 * Len(d.list),
                    [some |-> FALSE, v |-> << >>])
       ELSE
       AndThen(NegotiateContexts_read(b, off, U16Val(SubSeq(r.bytes, 33, 34)), end),
               ReadErr, LAMBDA l :
           Message(d, IF U16Val(SubSeq(r.bytes, 33, 34)) = 0
                      THEN off + AlignPadding(off, NEGOTIATE_CONTEXT_ALIGN)
                      ELSE l.pos,
                   [some |-> TRUE, v |-> l.list])))

NegotiateContextValues ==
    { [ctype |-> PreauthIntegrityCapabilitiesId, list |-> << 1 >>,
       salt |-> << 237, 0, 108 >>],
      [ctype |-> EncryptionCapabilitiesId, list |-> << 2, 1 >>],
      [ctype |-> CompressionCapabilitiesId, list |-> << 4, 2 >>, flags |-> 1],
      [ctype |-> NetnameNegotiateContextIdId, netname |-> << 108, 111 >>],
      [ctype |-> TransportCapabilitiesId, flags |-> 1],
      [ctype |-> RdmaTransformCapabilitiesId, list |-> << 1, 2 >>],
      [ctype |-> SigningCapabilitiesId, list |-> << 2 >>],
      [ctype |-> SigningCapabilitiesId, list |-> << >>] }

DialectLists == { << Smb0202 >>, << Smb0311 >>, << Smb0202, Smb021 >>,
                  << Smb021, Smb0311 >> }

ContextLists ==
    { [some |-> FALSE, v |-> << >>] }
    \cup { [some |-> TRUE, v |-> l] : l \in SeqsUpTo(NegotiateContextValues, MaxItems) }

NegotiateRequestValues ==
    [type : {"NegotiateRequest"}, security_mode : {1}, capabilities : {0, 127},
     client_guid : {U128(12)}, dialects : DialectLists,
     negotiate_context_list : ContextLists]

NegotiateRequest_encode ==
    MsgWrite({"NegotiateRequest"}, NegotiateRequest_bytes(msg, start))
NegotiateRequest_decode ==
    MsgRead({"NegotiateRequest"}, NegotiateRequest_read(buf, start, take_end))

InitNegotiate ==
    /\ pc = "encode"
    /\ msg \in NegotiateRequestValues
    /\ decoded = NoMessage
    /\ start \in HeaderSizes
    /\ buf = << >> /\ pos = 0 /\ take_end = 0 /\ result = "none"
    /\ MsgInitRest

NextNegotiate == NegotiateRequest_encode \/ NegotiateRequest_decode

SpecNegotiate == InitNegotiate /\ [][NextNegotiate]_vars

\* C13: every NegotiateRequest whose encoding succeeds decodes from its
\* encoding to the same request, whatever the combination of dialects and
\* negotiate_context_list.
C13_NegotiateRoundTrip ==
    pc = "done" => (result = "ok" /\ decoded = msg)

---------------------------------------------------------------------------
(* Discriminants outside the table: negotiate context types, create context *)
(* names                                                                    *)

\* a name no table holds
NameUnknown == << 88, 120, 88, 120 >>

\* context_type values put on the wire: two known ones, two unknown ones
WireContextTypes == {EncryptionCapabilitiesId, SigningCapabilitiesId, 4, 9}

WireContexts == [ctype : WireContextTypes, list : {<< 2 >>, << 2, 1 >>}]

WireNegotiateRequests ==
    [type : {"NegotiateRequest"}, security_mode : {1}, capabilities : {0},
     client_guid : {U128(12)}, dialects : {<< Smb0311 >>, << Smb021, Smb0311 >>},
     negotiate_context_list :
         { [some |-> TRUE, v |-> l] :
             l \in SeqsUpTo(WireContexts, MaxItems) \ {<< >>} }]

HasUnknownType(l) ==
    \E i \in 1..Len(l) : l[i].ctype \notin NegotiateContextTypes

\* either a NegotiateRequest on the wire whose contexts carry the given
\* context_type values, or a well-formed create context with the given name
InitUnknown ==
    \/ /\ pc = "decode"
       /\ msg \in WireNegotiateRequests
       /\ decoded = NoMessage
       /\ start \in HeaderSizes
       /\ buf = Zeros(start) \o NegotiateRequest_bytes(msg, start)
       /\ pos = start /\ take_end = Len(buf) /\ result = "none"
       /\ MsgInitRest
    \/ /\ pc = "cc_header"
       /\ build \in {"debug", "release"}
       /\ start \in {0, 8}
       /\ \E dl \in {0, 8}, name \in {NameAlSi, NameQFid, NameUnknown} :
             buf = Zeros(start) \o CreateContextBytes(16, 4, 24, dl, name)
       /\ pos = start
       /\ take_end = Len(buf)
       /\ cc = NoHeader
       /\ wrapped = FALSE
       /\ OFFSET_PAD = CREATE_CONTEXT_PAD /\ value = << >>
       /\ idx = 0 /\ markers = << >> /\ offsets = << >>
       /\ items = << >> /\ starts = << >> /\ result = "none"
       /\ readHi = 0 /\ lastHi = 0 /\ failAt = ""
       /\ kind = "" /\ plen = 0 /\ plen2 = 0 /\ lenField = -1
       /\ msg = NoMessage /\ decoded = NoMessage
       /\ NoMarkers

NextUnknown ==
    \/ NegotiateRequest_decode
    \/ cc_read_header
    \/ cc_read_name
    \/ cc_read_data

SpecUnknown == InitUnknown /\ [][NextUnknown]_vars

\* C14: a NegotiateContext whose context_type is not in the table, or a
\* create context whose name is not in the table, makes the decode of the
\* whole message fail; the record is neither skipped nor returned.
C14_UnknownIsFatal ==
    /\ (pc = "done" /\ msg.type = "NegotiateRequest"
            /\ HasUnknownType(msg.negotiate_context_list.v))
        => (result = "err" /\ decoded = NoMessage)
    /\ (pc = "done" /\ msg = NoMessage /\ cc.name \notin CreateRequestNames)
        => (result = "err" /\ items = << >>)

C14_Witness ==
    /\ pc = "done" /\ msg.type = "NegotiateRequest" /\ result = "err"
    /\ Len(msg.negotiate_context_list.v) = 2
    /\ msg.negotiate_context_list.v[1].ctype = SigningCapabilitiesId
    /\ msg.negotiate_context_list.v[2].ctype \notin NegotiateContextTypes

---------------------------------------------------------------------------
(* IoctlRequest: decode                                                     *)

IOCTL_STRUCT_SIZE == 57
IOCTL_FIXED_SIZE == 56

\* the entries of the ioctl_req_data! table, in declaration order
FsctlNames ==
    << "PipePeek", "SrvEnumerateSnapshots", "SrvRequestResumeKey",
       "QueryNetworkInterfaceInfo", "SrvCopychunk", "SrvCopychunkWrite",
       "SrvReadHash", "LmrRequestResiliency", "ValidateNegotiateInfo",
       "DfsGetReferrals", "PipeWait", "PipeTransceive",
       "SetReparsePoint", "DfsGetReferralsEx", "FileLevelTrim",
       "QueryAllocatedRanges", "OffloadRead" >>

\* FsctlCodes as u32
FsctlCodes(f) ==
    CASE f = "PipePeek" -> 1130508
      [] f = "SrvEnumerateSnapshots" -> 1327204
      [] f = "SrvRequestResumeKey" -> 1310840
      [] f = "QueryNetworkInterfaceInfo" -> 1311228
      [] f = "SrvCopychunk" -> 1327346
      [] f = "SrvCopychunkWrite" -> 1343730
      [] f = "SrvReadHash" -> 1327547
      [] f = "LmrRequestResiliency" -> 1311188
      [] f = "ValidateNegotiateInfo" -> 1311236
      [] f = "DfsGetReferrals" -> 393620
      [] f = "PipeWait" -> 1114136
      [] f = "PipeTransceive" -> 1163287
      [] f = "SetReparsePoint" -> 589988
      [] f = "DfsGetReferralsEx" -> 393648
      [] f = "FileLevelTrim" -> 623112
      [] f = "QueryAllocatedRanges" -> 606415
      [] f = "OffloadRead" -> 606820

FSCTL_PIPE_PEEK == FsctlCodes("PipePeek")
FSCTL_PIPE_TRANSCEIVE == FsctlCodes("PipeTransceive")
FsctlTable == {FsctlCodes(FsctlNames[i]) : i \in DOMAIN FsctlNames}

\* the table entry of a ctl_code, "" when there is none
FsctlOf(ctl_code) ==
    IF ctl_code \in FsctlTable
    THEN FsctlNames[CHOOSE i \in DOMAIN FsctlNames : FsctlCodes(FsctlNames[i]) = ctl_code]
    ELSE ""

\* IoctlRequestFlags::is_fsctl: bit 0
IsFsctl(flags) == flags % 2 = 1

\* IoctlBuffer: every byte up to the end of the view
IoctlBuffer_read(b, p, end) ==
    ReadExact(b, p, Min(TakeSeekLimit(end, p), CursorRemaining(b, p)), end).bytes

\* the wide units of a NullWideString at p, its terminator included: the
\* count of bytes read, -1 when the view ends before a terminator
RECURSIVE NullWideString_size(_, _, _)
NullWideString_size(b, p, end) ==
    LET u == ReadExact(b, p, 2, end)
        rest == NullWideString_size(b, p + 2, end)
    IN IF ~u.ok THEN -1
       ELSE IF U16Val(u.bytes) = 0 THEN 2
       ELSE IF rest < 0 THEN -1 ELSE 2 + rest

\* the request structure of table entry f read at p: the count of bytes it
\* takes, -1 when the read fails
FsctlRequest_size(b, p, end, f) ==
    LET Has(n) == ReadExact(b, p, n, end).ok
        U32At(o) == U32Val(ReadExact(b, p + o, 4, end).bytes)
        U16At(o) == U16Val(ReadExact(b, p + o, 2, end).bytes)
        Sized(n) == IF Has(n) THEN n ELSE -1
        name == NullWideString_size(b, p + 2, end)
    IN CASE f \in {"PipePeek", "SrvEnumerateSnapshots", "SrvRequestResumeKey",
                   "QueryNetworkInterfaceInfo"} -> 0
         [] f \in {"SrvCopychunk", "SrvCopychunkWrite"} ->
              IF Has(32) THEN Sized(32 + 24 * U32At(24)) ELSE -1
         [] f = "SrvReadHash" ->
              IF Has(12) /\ U32At(0) = 1 /\ U32At(4) \in {1, 2} /\ U32At(8) \in {1, 2}
              THEN Sized(24) ELSE -1
         [] f = "LmrRequestResiliency" -> Sized(8)
         [] f = "ValidateNegotiateInfo" ->
              IF Has(24) /\ ReadDialects(b, p + 24, U16At(22), end).ok
              THEN 24 + 2 * U16At(22) ELSE -1
         [] f = "DfsGetReferrals" ->
              IF Has(2) /\ name >= 0 THEN 2 + name ELSE -1
         [] f = "PipeWait" -> IF Has(14) THEN Sized(14 + U32At(8)) ELSE -1
         [] f = "PipeTransceive" -> Len(IoctlBuffer_read(b, p, end))
         [] f = "SetReparsePoint" -> IF Has(8) THEN Sized(8 + U16At(4)) ELSE -1
         [] f = "DfsGetReferralsEx" -> IF Has(8) THEN Sized(8 + U32At(4)) ELSE -1
         [] f = "FileLevelTrim" -> IF Has(8) THEN Sized(8 + 16 * U32At(4)) ELSE -1
         [] f = "QueryAllocatedRanges" -> Sized(16)
         [] f = "OffloadRead" -> IF Has(4) /\ U32At(0) = 32 THEN Sized(32) ELSE -1

\* (mutant) no variant without a pre_assert
IoctlReqData_read_NoFallback(b, p, end, ctl_code, flags) ==
    With(FsctlOf(ctl_code), LAMBDA f :
    With(IF f # "" /\ IsFsctl(flags) THEN FsctlRequest_size(b, p, end, f) ELSE -1,
         LAMBDA n :
       IF n >= 0
       THEN [ok |-> TRUE, val |-> [variant |-> "Fsctl" \o f,
                                   bytes |-> SubSeq(b, p + 1, p + n)],
             pos |-> p + n]
       ELSE [ok |-> FALSE, val |-> [variant |-> "", bytes |-> << >>], pos |-> p]))

\* IoctlReqData: the variants are tried in declaration order. A table entry
\* is tried when its pre_assert holds for (ctl_code, flags); when its read
\* fails the reader goes back and the last variant, Ioctl(IoctlBuffer),
\* which has no pre_assert, takes the bytes
IoctlReqData_read(b, p, end, ctl_code, flags) ==
    With(FsctlOf(ctl_code), LAMBDA f :
    With(IF f # "" /\ IsFsctl(flags) THEN FsctlRequest_size(b, p, end, f) ELSE -1,
         LAMBDA n :
       IF n >= 0
       THEN [ok |-> TRUE, val |-> [variant |-> "Fsctl" \o f,
                                   bytes |-> SubSeq(b, p + 1, p + n)],
             pos |-> p + n]
       ELSE With(IoctlBuffer_read(b, p, end), LAMBDA raw :
                [ok |-> TRUE, val |-> [variant |-> "Ioctl", bytes |-> raw],
                 pos |-> p + Len(raw)])))

\* the fixed part on the wire, as the fields of w give it
IoctlRequest_wire(w) ==
    U16Bytes(w.struct_size) \o U16Bytes(0) \o U32Bytes(w.ctl_code)
        \o U128Bytes(w.file_id) \o U32Bytes(w.input_offset)
        \o U32Bytes(w.input_count) \o U32Bytes(0) \o U32Bytes(w.output_offset)
        \o U32Bytes(0) \o U32Bytes(1024) \o U32Bytes(w.flags) \o U32Bytes(0)

\* buffer is read at the position the fixed part ends at, through
\* take_seek(_input_count)
IoctlRequest_read(b, p, end) ==
    LET r == ReadExact(b, p, IOCTL_FIXED_SIZE, end)
        q == p + IOCTL_FIXED_SIZE
    IN IF ~r.ok THEN ReadErr
       ELSE IF U16Val(SubSeq(r.bytes, 1, 2)) # IOCTL_STRUCT_SIZE THEN ReadErr
       ELSE IF U32Val(SubSeq(r.bytes, 37, 40)) # 0 THEN ReadErr
       ELSE IF U32Val(SubSeq(r.bytes, 41, 44)) # 0 THEN ReadErr
       ELSE AndThen(IoctlReqData_read(b, q, Min(end, q + U32Val(SubSeq(r.bytes, 29, 32))),
                                      U32Val(SubSeq(r.bytes, 5, 8)),
                                      U32Val(SubSeq(r.bytes, 49, 52))),
                    ReadErr, LAMBDA d :
                [ok |-> TRUE,
                 val |-> [type |-> "IoctlRequest",
                          ctl_code |-> U32Val(SubSeq(r.bytes, 5, 8)),
                          file_id |-> U128Val(SubSeq(r.bytes, 9, 24)),
                          max_input_response |-> U32Val(SubSeq(r.bytes, 33, 36)),
                          max_output_response |-> U32Val(SubSeq(r.bytes, 45, 48)),
                          flags |-> U32Val(SubSeq(r.bytes, 49, 52)),
                          buffer |-> d.val],
                 pos |-> d.pos])

IoctlWireValues ==
    [type : {"IoctlRequest"}, struct_size : {IOCTL_STRUCT_SIZE, 49},
     ctl_code : {FSCTL_PIPE_TRANSCEIVE, FSCTL_PIPE_PEEK,
                 FsctlCodes("LmrRequestResiliency"), FsctlCodes("OffloadRead"),
                 0, 1163288},
     file_id : {U128(5)},
     input_offset : {0, 120}, input_count : {0, 4, 8},
     output_offset : {0, 4}, flags : {0, 1, 2}]

\* the bytes that follow the fixed part in the stream
IoctlTail == << 1, 2, 3, 4, 5, 6, 7, 8, 9, 10 >>

IoctlRequest_decode ==
    MsgRead({"IoctlRequest"}, IoctlRequest_read(buf, start, take_end))

InitIoctl ==
    /\ pc = "decode"
    /\ msg \in IoctlWireValues
    /\ decoded = NoMessage
    /\ start \in HeaderSizes
    /\ buf = Zeros(start) \o IoctlRequest_wire(msg) \o IoctlTail
    /\ pos = start /\ take_end = Len(buf) /\ result = "none"
    /\ MsgInitRest

NextIoctl == IoctlRequest_decode

SpecIoctl == InitIoctl /\ [][NextIoctl]_vars

\* C15: an IoctlRequest whose ctl_code is in no FSCTL table entry, or whose
\* flags.is_fsctl is false, does not fail for that reason: it decodes to
\* IoctlReqData::Ioctl with exactly the input_count bytes of the input region.
C15_OpaqueFallback ==
    (/\ pc = "done"
     /\ msg.type = "IoctlRequest"
     /\ msg.ctl_code \notin FsctlTable \/ ~IsFsctl(msg.flags)
     /\ msg.struct_size = IOCTL_STRUCT_SIZE /\ msg.output_offset = 0)
        => /\ result = "ok"
           /\ decoded.buffer =
                  [variant |-> "Ioctl",
                   bytes |-> SubSeq(IoctlTail, 1, msg.input_count)]

C15_Witness ==
    /\ pc = "done" /\ result = "ok"
    /\ msg.ctl_code = 1163288 /\ IsFsctl(msg.flags)
    /\ msg.input_count = 4
    /\ decoded.buffer = [variant |-> "Ioctl", bytes |-> << 1, 2, 3, 4 >>]

---------------------------------------------------------------------------
(* PosMarker fields of the message types: the encode call, field by field   *)

\* the field writes of an encode call, in declaration order
Fixed(n) == [op |-> "fixed", n |-> n]
Marker(id, w) == [op |-> "marker", id |-> id, width |-> w]
Align(n) == [op |-> "align", n |-> n]
Begin(name) == [op |-> "begin", name |-> name]
End(name) == [op |-> "end", name |-> name]
Resolve(id, how, name) == [op |-> "resolve", id |-> id, how |-> how, name |-> name]

\* write_with = PosMarker::write_size: the payload, then its size
WriteSize(id, name, len) ==
    << Begin(name), Fixed(len), End(name), Resolve(id, "size", name) >>

\* one ChainedItem per list item: the next_entry_offset marker, the body and,
\* unless it is the last, the padding and write_roff on the marker
RECURSIVE ChainOps(_, _, _, _)
ChainOps(i, n, bodyLen, pad) ==
    IF i > n THEN << >>
    ELSE << Marker(<< "next_entry_offset", i >>, CHAINED_ITEM_PREFIX_SIZE),
            Fixed(bodyLen) >>
         \o (IF i < n
             THEN << Align(pad), Begin(<< "next", i >>), End(<< "next", i >>),
                     Resolve(<< "next_entry_offset", i >>, "roff", << "next", i >>) >>
             ELSE << >>)
         \o ChainOps(i + 1, n, bodyLen, pad)

\* a payload that is a ChainedItemList of n items, with the offset and the
\* length marker filled from the one payload write
ChainPayload(offId, lenId, name, n, bodyLen, pad) ==
    << Begin(name) >> \o ChainOps(1, n, bodyLen, pad)
        \o << End(name), Resolve(offId, "aoff", name), Resolve(lenId, "size", name) >>

\* ErrorResponseContext: align_before = 8, _error_data_length, error_id,
\* error_data
ErrorResponseContext_ops(len) == << Align(8), Fixed(4), Fixed(4), Fixed(len) >>

RECURSIVE ErrorResponseContexts_ops(_, _)
ErrorResponseContexts_ops(n, len) ==
    IF n = 0 THEN << >>
    ELSE ErrorResponseContext_ops(len) \o ErrorResponseContexts_ops(n - 1, len)

\* error_data is written element by element
ErrorResponse_ops(n, len) ==
    << Fixed(2), Fixed(1), Fixed(1), Marker(<< "_byte_count", 0 >>, 4) >>
        \o ErrorResponseContexts_ops(n, len)

NegotiateContext_ops(len) ==
    << Align(NEGOTIATE_CONTEXT_ALIGN), Fixed(2), Marker(<< "data_length", 0 >>, 2),
       Fixed(4) >> \o WriteSize(<< "data_length", 0 >>, << "data", 0 >>, len)

SMB1NegotiateMessage_ops(len) ==
    << Fixed(4), Fixed(29), Marker(<< "byte_count", 0 >>, 2) >>
        \o WriteSize(<< "byte_count", 0 >>, << "dialects", 0 >>, len)

SetInfoRequest_ops(len) ==
    << Fixed(4), Marker(<< "buffer_length", 0 >>, 4),
       Marker(<< "_buffer_offset", 0 >>, 2), Fixed(22),
       Begin(<< "data", 0 >>), Fixed(len), End(<< "data", 0 >>),
       Resolve(<< "_buffer_offset", 0 >>, "aoff", << "data", 0 >>),
       Resolve(<< "buffer_length", 0 >>, "size", << "data", 0 >>) >>

IoctlRequest_ops(len) ==
    << Fixed(24), Marker(<< "_input_offset", 0 >>, 4),
       Marker(<< "_input_count", 0 >>, 4), Fixed(24),
       Begin(<< "buffer", 0 >>), Fixed(len), End(<< "buffer", 0 >>),
       Resolve(<< "_input_offset", 0 >>, "aoff", << "buffer", 0 >>),
       Resolve(<< "_input_count", 0 >>, "size", << "buffer", 0 >>) >>

CreateRequest_ops(n, len) ==
    << Fixed(44), Marker(<< "_name_offset", 0 >>, 2), Fixed(2),
       Marker(<< "_create_contexts_offset", 0 >>, 4),
       Marker(<< "_create_contexts_length", 0 >>, 4),
       Align(8), Begin(<< "name", 0 >>), Fixed(2 + len), End(<< "name", 0 >>),
       Resolve(<< "_name_offset", 0 >>, "aoff", << "name", 0 >>), Align(8) >>
        \o ChainPayload(<< "_create_contexts_offset", 0 >>,
                        << "_create_contexts_length", 0 >>, << "contexts", 0 >>,
                        n, 20 + len, CREATE_CONTEXT_PAD)

CreateResponse_ops(n, len) ==
    << Fixed(80), Marker(<< "create_contexts_offset", 0 >>, 4),
       Marker(<< "create_contexts_length", 0 >>, 4) >>
        \o ChainPayload(<< "create_contexts_offset", 0 >>,
                        << "create_contexts_length", 0 >>, << "create_contexts", 0 >>,
                        n, 20 + len, CREATE_CONTEXT_PAD)

\* bw(if(!buffer.is_empty())): an empty buffer is not written at all
ChangeNotifyResponse_ops(n, len) ==
    << Fixed(2), Marker(<< "_output_buffer_offset", 0 >>, 2),
       Marker(<< "_output_buffer_length", 0 >>, 4) >>
        \o (IF n > 0
            THEN ChainPayload(<< "_output_buffer_offset", 0 >>,
                              << "_output_buffer_length", 0 >>, << "buffer", 0 >>,
                              n, 8 + len, 4)
            ELSE << >>)

MarkerKinds == {"ErrorResponse", "NegotiateContext", "SMB1NegotiateMessage",
                "SetInfoRequest", "IoctlRequest", "CreateRequest",
                "CreateResponse", "ChangeNotifyResponse"}

\* the kinds whose payload is a list of n items
ListKinds == {"ErrorResponse", "CreateRequest", "CreateResponse",
              "ChangeNotifyResponse"}

Program(k, n, len) ==
    CASE k = "ErrorResponse" -> ErrorResponse_ops(n, len)
      [] k = "NegotiateContext" -> NegotiateContext_ops(len)
      [] k = "SMB1NegotiateMessage" -> SMB1NegotiateMessage_ops(len)
      [] k = "SetInfoRequest" -> SetInfoRequest_ops(len)
      [] k = "IoctlRequest" -> IoctlRequest_ops(len)
      [] k = "CreateRequest" -> CreateRequest_ops(n, len)
      [] k = "CreateResponse" -> CreateResponse_ops(n, len)
      [] k = "ChangeNotifyResponse" -> ChangeNotifyResponse_ops(n, len)

\* the bytes of a field that is not a marker, none of them zero
Fill(n) == [i \in 1..n |-> 170]

\* a value of the marker's width on the wire
LEBytes(v, w) == IF w = 2 THEN U16Bytes(v) ELSE U32Bytes(v)
LEVal(b, w) == IF w = 2 THEN U16Val(b) ELSE U32Val(b)

\* (mutant) the writer is left behind the marker after the back-patch
PosMarkerResolve_NoSeekBack(b, p, m, v) ==
    [buf |-> WriteAt(b, m.at, LEBytes(v, m.width)), pos |-> m.at + m.width]

\* the back-patch of a marker: seek to its position, write the value in its
\* width, seek back to where the writer was
PosMarkerResolve(b, p, m, v) ==
    [buf |-> WriteAt(b, m.at, LEBytes(v, m.width)), pos |-> p]

\* (mutant) the offset is measured from the marker
WriteAoffValue_Relative(before, at) == before - at

\* write_aoff, write_aoff_size, write_roff_size: the stream position at which
\* the payload starts
WriteAoffValue(before, at) == before

\* the value a resolve gives the marker m for the payload with anchors a
ResolveValue(how, a, m) ==
    CASE how = "aoff" -> WriteAoffValue(a.before, m.at)
      [] how = "roff" -> WriteRoffValue(a.before, m.at)
      [] how = "size" -> WriteSizeValue(a.after, a.before)

mkIdle == << OFFSET_PAD, start, value, take_end, idx, markers, offsets, items,
             starts, readHi, lastHi, failAt, kind, plen, plen2, lenField, ccVars,
             msgVars >>

enc_fixed ==
    /\ pc = "fields" /\ prog # << >> /\ Head(prog).op = "fixed"
    /\ buf' = WriteAt(buf, pos, Fill(Head(prog).n))
    /\ pos' = pos + Head(prog).n
    /\ prog' = Tail(prog)
    /\ UNCHANGED << pc, result, anchor, pm, mkIdle >>

\* BinWrite of a PosMarker: the position is recorded, zeros are written
enc_marker ==
    /\ pc = "fields" /\ prog # << >> /\ Head(prog).op = "marker"
    /\ buf' = WriteAt(buf, pos, Zeros(Head(prog).width))
    /\ pos' = pos + Head(prog).width
    /\ pm' = (Head(prog).id :> [at |-> pos, width |-> Head(prog).width,
                                resolved |-> FALSE, value |-> 0, how |-> "",
                                name |-> << >>]) @@ pm
    /\ prog' = Tail(prog)
    /\ UNCHANGED << pc, result, anchor, mkIdle >>

enc_align ==
    /\ pc = "fields" /\ prog # << >> /\ Head(prog).op = "align"
    /\ buf' = WriteAt(buf, pos, Zeros(AlignPadding(pos, Head(prog).n)))
    /\ pos' = pos + AlignPadding(pos, Head(prog).n)
    /\ prog' = Tail(prog)
    /\ UNCHANGED << pc, result, anchor, pm, mkIdle >>

\* write_with: the position before the payload is written
enc_begin ==
    /\ pc = "fields" /\ prog # << >> /\ Head(prog).op = "begin"
    /\ anchor' = (Head(prog).name :> [before |-> pos, after |-> -1]) @@ anchor
    /\ prog' = Tail(prog)
    /\ UNCHANGED << pc, result, buf, pos, pm, mkIdle >>

\* write_with: the position after the payload is written
enc_end ==
    /\ pc = "fields" /\ prog # << >> /\ Head(prog).op = "end"
    /\ anchor' = (Head(prog).name :> [before |-> anchor[Head(prog).name].before,
                                      after |-> pos]) @@ anchor
    /\ prog' = Tail(prog)
    /\ UNCHANGED << pc, result, buf, pos, pm, mkIdle >>

\* write_with: the marker is filled
enc_resolve ==
    /\ pc = "fields" /\ prog # << >> /\ Head(prog).op = "resolve"
    /\ LET op == Head(prog)
           m == pm[op.id]
           v == ResolveValue(op.how, anchor[op.name], m)
           r == PosMarkerResolve(buf, pos, m, v)
       IN /\ buf' = r.buf
          /\ pos' = r.pos
          /\ pm' = (op.id :> [at |-> m.at, width |-> m.width, resolved |-> TRUE,
                              value |-> v, how |-> op.how, name |-> op.name]) @@ pm
    /\ prog' = Tail(prog)
    /\ UNCHANGED << pc, result, anchor, mkIdle >>

\* every field is written: Ok(())
enc_return ==
    /\ pc = "fields" /\ prog = << >>
    /\ pc' = "done"
    /\ result' = "ok"
    /\ UNCHANGED << buf, pos, prog, anchor, pm, mkIdle >>

PayloadLens == {0, 2, 4}

InitMarker ==
    /\ pc = "fields"
    /\ kind \in MarkerKinds
    /\ plen \in PayloadLens
    /\ plen2 \in IF kind \in ListKinds THEN 0..MaxItems ELSE {0}
    /\ prog = Program(kind, plen2, plen)
    /\ anchor = << >> /\ pm = << >>
    /\ start \in HeaderSizes
    /\ buf = Zeros(start) /\ pos = start /\ take_end = 0 /\ result = "none"
    /\ lenField = -1
    /\ OFFSET_PAD = 4 /\ value = << >> /\ idx = 0
    /\ markers = << >> /\ offsets = << >> /\ items = << >> /\ starts = << >>
    /\ readHi = 0 /\ lastHi = 0 /\ failAt = ""
    /\ build = "release" /\ cc = NoHeader /\ wrapped = FALSE
    /\ msg = NoMessage /\ decoded = NoMessage

NextMarker ==
    \/ enc_fixed
    \/ enc_marker
    \/ enc_align
    \/ enc_begin
    \/ enc_end
    \/ enc_resolve
    \/ enc_return

SpecMarker == InitMarker /\ [][NextMarker]_vars

\* the bytes the stream holds at the marker m
WireValue(m) == LEVal(SubSeq(buf, m.at + 1, m.at + m.width), m.width)

\* C16: resolving a marker rewrites exactly the bytes of its width at its
\* recorded position with the little-endian value; every other byte of the
\* buffer and the write position stay as they were.
C16_BackPatchFrame ==
    [][enc_resolve =>
        LET m == pm[Head(prog).id]
        IN /\ Len(buf') = Len(buf)
           /\ \A i \in 1..Len(buf) :
                 (i <= m.at \/ i > m.at + m.width) => buf'[i] = buf[i]
           /\ SubSeq(buf', m.at + 1, m.at + m.width)
                  = LEBytes(pm'[Head(prog).id].value, m.width)
           /\ pos' = pos
           /\ pos' = Len(buf')]_vars

C16_Witness ==
    /\ pc = "done" /\ kind = "CreateRequest" /\ start = 64
    /\ << "_name_offset", 0 >> \in DOMAIN pm
    /\ pm[<< "_name_offset", 0 >>].resolved
    /\ WireValue(pm[<< "_name_offset", 0 >>]) = 120
    /\ SubSeq(buf, 121, 122) = Fill(2)
    /\ Len(buf) > 136

\* C17: when the encode call of a structure returns successfully, every
\* marker whose placeholder it wrote has been resolved.
C17_AllResolved ==
    (pc = "done" /\ kind \in MarkerKinds /\ result = "ok")
        => \A id \in DOMAIN pm : pm[id].resolved

\* C18 as stated: the length is measured from the end of the marker.
C18_Original ==
    \A id \in DOMAIN pm :
        pm[id].how = "size"
            => WireValue(pm[id])
                   = anchor[pm[id].name].after - (pm[id].at + pm[id].width)

\* C18: the value back-patched into a length marker is (position after the
\* payload) - (position at which the payload starts), the number of payload
\* bytes, and 0 for a zero-length payload; what lies between the marker and
\* the payload is not counted.
C18_LengthFormula ==
    \A id \in DOMAIN pm :
        pm[id].how = "size"
            => /\ WireValue(pm[id])
                      = anchor[pm[id].name].after - anchor[pm[id].name].before
               /\ (anchor[pm[id].name].after = anchor[pm[id].name].before)
                      => WireValue(pm[id]) = 0

C18_Witness ==
    /\ pc = "done" /\ kind = "NegotiateContext" /\ plen = 4
    /\ WireValue(pm[<< "data_length", 0 >>]) = 4
    /\ anchor[<< "data", 0 >>].after
           - (pm[<< "data_length", 0 >>].at + pm[<< "data_length", 0 >>].width) = 8

\* C19: an offset marker and a length marker filled from one payload write
\* hold the stream position of the first payload byte, after the alignment
\* padding, and the number of payload bytes: [offset, offset + length) is
\* the payload.
C19_PairedMarkers ==
    \A o \in DOMAIN pm : \A l \in DOMAIN pm :
        (pm[o].how = "aoff" /\ pm[l].how = "size" /\ pm[o].name = pm[l].name)
            => /\ WireValue(pm[o]) = anchor[pm[o].name].before
               /\ WireValue(pm[o]) + WireValue(pm[l]) = anchor[pm[o].name].after
               /\ WireValue(pm[o]) >= pm[o].at + pm[o].width
               /\ WireValue(pm[o]) + WireValue(pm[l]) <= Len(buf)

C19_Witness ==
    /\ pc = "done" /\ kind = "CreateRequest" /\ start = 64 /\ plen2 = 2
    /\ plen = 2
    /\ WireValue(pm[<< "_create_contexts_offset", 0 >>]) = 128
    /\ WireValue(pm[<< "_create_contexts_length", 0 >>]) = 58
    /\ Len(buf) = 186

---------------------------------------------------------------------------
(* TreeConnectRequest: the extension fields                                 *)

TREE_CONNECT_STRUCTURE_SIZE == 9
TREE_CONNECT_BASE_SIZE == 8
TREE_CONNECT_EXTENSION_SIZE == 16
TREE_CONNECT_CONTEXT_SIZE == 8

\* TreeConnectRequestFlags: extension_present is bit 2
TreeConnectFlags_write(f) ==
    U16Bytes((IF f.cluster_reconnect THEN 1 ELSE 0)
                 + (IF f.extension_present THEN 4 ELSE 0))
TreeConnectFlags_read(b) ==
    [cluster_reconnect |-> U16Val(b) % 2 = 1,
     extension_present |-> (U16Val(b) \div 4) % 2 = 1]

\* the result of a failed read of a part, the reader back at p
PartErr(p) == [ok |-> FALSE, pos |-> p]

\* SidAttrData: sid_data, attr
SidAttrData_write(x) == SID_write(x.sid_data) \o U32Bytes(x.attr)
SidAttrData_read(b, p, end) ==
    AndThen(SID_read(b, p, end), PartErr(p), LAMBDA sid :
    AndThen(ReadExact(b, sid.pos, 4, end), PartErr(p), LAMBDA attr :
        [ok |-> TRUE, val |-> [sid_data |-> sid.val, attr |-> U32Val(attr.bytes)],
         pos |-> sid.pos + 4]))

\* ClaimSecurityAttributeRelativeV1: the offset of the name, value_type,
\* reserved, flags, value_count and value_count offsets of values
CLAIM_FIXED_SIZE == 4 + 2 + 2 + 4 + 4
ClaimSecurityAttributeRelativeV1_write(x) ==
    U32Bytes(x.name) \o U16Bytes(x.value_type) \o U16Bytes(0) \o U32Bytes(x.flags)
        \o U32Bytes(Len(x.values)) \o U32ListBytes(x.values)
ClaimSecurityAttributeRelativeV1_read(b, p, end) ==
    LET h == ReadExact(b, p, CLAIM_FIXED_SIZE, end)
        n == U32Val(SubSeq(h.bytes, 13, 16))
        v == ReadExact(b, p + CLAIM_FIXED_SIZE, 4 * n, end)
    IN IF ~h.ok THEN PartErr(p)
       ELSE IF ~v.ok THEN PartErr(p)
       ELSE [ok |-> TRUE,
             val |-> [name |-> U32Val(SubSeq(h.bytes, 1, 4)),
                      value_type |-> U16Val(SubSeq(h.bytes, 5, 6)),
                      flags |-> U32Val(SubSeq(h.bytes, 9, 12)),
                      values |-> U32ListVal(v.bytes)],
             pos |-> p + CLAIM_FIXED_SIZE + 4 * n]

\* LuidAttrData: luid, attr
LUID_ATTR_SIZE == 8 + 4

\* BlobData<T>: blob_size is a PosMarker<u16> that no write_with fills, so
\* its placeholder stays on the wire whatever the value holds; then blob_data
BlobData_write(ty, x) ==
    Zeros(2)
        \o CASE ty = "SID" -> SID_write(x.blob_data)
             [] ty = "ACL" -> ACL_write(x.blob_data)
             [] ty = "Claim" -> ClaimSecurityAttributeRelativeV1_write(x.blob_data)
             [] ty = "LuidAttrData" ->
                    U64Bytes(x.blob_data.luid) \o U32Bytes(x.blob_data.attr)

\* blob_data is read through take_seek(blob_size)
BlobData_read(ty, b, p, end) ==
    LET q == p + 2
        LuidAttrData_read(inner) ==
            AndThen(ReadExact(b, q, LUID_ATTR_SIZE, inner), PartErr(q), LAMBDA luid :
                [ok |-> TRUE,
                 val |-> [luid |-> U64Val(SubSeq(luid.bytes, 1, 8)),
                          attr |-> U32Val(SubSeq(luid.bytes, 9, 12))],
                 pos |-> q + LUID_ATTR_SIZE])
    IN AndThen(ReadExact(b, p, 2, end), PartErr(p), LAMBDA sz :
       With(Min(end, q + U16Val(sz.bytes)), LAMBDA inner :
       AndThen(CASE ty = "SID" -> SID_read(b, q, inner)
                 [] ty = "ACL" -> ACL_read(b, q, inner)
                 [] ty = "Claim" -> ClaimSecurityAttributeRelativeV1_read(b, q, inner)
                 [] ty = "LuidAttrData" -> LuidAttrData_read(inner),
               PartErr(p), LAMBDA d :
           [ok |-> TRUE,
            val |-> [blob_size |-> U16Val(sz.bytes), blob_data |-> d.val],
            pos |-> d.pos])))

\* ArrayData<T>: lcount, then lcount items; T is SidAttrData or
\* BlobData<LuidAttrData>
ArrayItem_write(ty, x) ==
    IF ty = "SidAttrData" THEN SidAttrData_write(x) ELSE BlobData_write(ty, x)
ArrayItem_read(ty, b, p, end) ==
    IF ty = "SidAttrData" THEN SidAttrData_read(b, p, end)
    ELSE BlobData_read(ty, b, p, end)

RECURSIVE ArrayItems_write(_, _)
ArrayItems_write(ty, l) ==
    IF l = << >> THEN << >>
    ELSE ArrayItem_write(ty, Head(l)) \o ArrayItems_write(ty, Tail(l))

RECURSIVE ArrayItems_read(_, _, _, _, _)
ArrayItems_read(ty, b, p, end, n) ==
    IF n = 0 THEN [ok |-> TRUE, val |-> << >>, pos |-> p]
    ELSE AndThen(ArrayItem_read(ty, b, p, end), PartErr(p), LAMBDA x :
         AndThen(ArrayItems_read(ty, b, x.pos, end, n - 1), PartErr(p), LAMBDA rest :
             [ok |-> TRUE, val |-> << x.val >> \o rest.val, pos |-> rest.pos]))

ArrayData_write(ty, l) == U16Bytes(Len(l)) \o ArrayItems_write(ty, l)
ArrayData_read(ty, b, p, end) ==
    AndThen(ReadExact(b, p, 2, end), PartErr(p), LAMBDA n :
    AndThen(ArrayItems_read(ty, b, p + 2, end, U16Val(n.bytes)), PartErr(p),
            LAMBDA l : l))

\* NullWideString: the units up to the terminator, then the terminator
NullWideString_write(units) == WideBytes(units) \o << 0, 0 >>
NullWideString_read(b, p, end) ==
    With(NullWideString_size(b, p, end), LAMBDA n :
       IF n < 0 THEN PartErr(p)
       ELSE [ok |-> TRUE, val |-> WideUnits(SubSeq(b, p + 1, p + n - 2)),
             pos |-> p + n])

\* the value fields of make_remoted_identity_connect!, in declaration order,
\* each with the shape of its type
RemotedIdentityFields ==
    << << "user", "SidAttrData", "" >>,
       << "user_name", "NullWideString", "" >>,
       << "domain", "NullWideString", "" >>,
       << "groups", "ArrayData", "SidAttrData" >>,
       << "restricted_groups", "ArrayData", "SidAttrData" >>,
       << "privileges", "ArrayData", "LuidAttrData" >>,
       << "primary_group", "ArrayData", "SidAttrData" >>,
       << "owner", "BlobData", "SID" >>,
       << "default_dacl", "BlobData", "ACL" >>,
       << "device_groups", "ArrayData", "SidAttrData" >>,
       << "user_claims", "BlobData", "Claim" >>,
       << "device_claims", "BlobData", "Claim" >> >>

RemotedIdentityField_write(i, v) ==
    LET f == RemotedIdentityFields[i]
    IN CASE f[2] = "SidAttrData" -> SidAttrData_write(v)
         [] f[2] = "NullWideString" -> NullWideString_write(v)
         [] f[2] = "ArrayData" -> ArrayData_write(f[3], v)
         [] f[2] = "BlobData" -> BlobData_write(f[3], v)

RemotedIdentityField_read(i, b, p, end) ==
    LET f == RemotedIdentityFields[i]
    IN CASE f[2] = "SidAttrData" -> SidAttrData_read(b, p, end)
         [] f[2] = "NullWideString" -> NullWideString_read(b, p, end)
         [] f[2] = "ArrayData" -> ArrayData_read(f[3], b, p, end)
         [] f[2] = "BlobData" -> BlobData_read(f[3], b, p, end)

\* _ticket_type, ticket_size and the offset markers
REMOTED_IDENTITY_HEADER_SIZE == 2 + 2 + 2 * 12

\* the values of fields i.. of d, one after the other
RECURSIVE RemotedIdentityValues_write(_, _)
RemotedIdentityValues_write(d, i) ==
    IF i > Len(RemotedIdentityFields) THEN << >>
    ELSE RemotedIdentityField_write(i, d[RemotedIdentityFields[i][1]])
             \o RemotedIdentityValues_write(d, i + 1)

\* write_roff_b: the position of field i relative to _ticket_type
RemotedIdentityOffset(d, i) ==
    REMOTED_IDENTITY_HEADER_SIZE + Len(RemotedIdentityValues_write(d, 1))
        - Len(RemotedIdentityValues_write(d, i))

RECURSIVE RemotedIdentityOffsets_write(_, _)
RemotedIdentityOffsets_write(d, i) ==
    IF i > Len(RemotedIdentityFields) THEN << >>
    ELSE U16Bytes(RemotedIdentityOffset(d, i)) \o RemotedIdentityOffsets_write(d, i + 1)

\* RemotedIdentityTreeConnect: _ticket_type is PosMarker::new(1), a marker
\* that no write_with fills (write_roff_b only uses its position): its
\* placeholder stays on the wire. The offsets are back-patched as the values
\* are written
RemotedIdentityTreeConnect_write(d) ==
    Zeros(2) \o U16Bytes(d.ticket_size) \o RemotedIdentityOffsets_write(d, 1)
        \o RemotedIdentityValues_write(d, 1)

\* the values of fields i.., each read after a seek to the position of
\* _ticket_type plus the field's offset
RECURSIVE RemotedIdentityValues_read(_, _, _, _, _)
RemotedIdentityValues_read(b, base, end, offs, i) ==
    IF i > Len(RemotedIdentityFields)
    THEN [ok |-> TRUE, val |-> << >>, pos |-> base]
    ELSE AndThen(RemotedIdentityField_read(i, b, base + offs[i], end),
                 PartErr(base), LAMBDA v :
         AndThen(RemotedIdentityValues_read(b, base, end, offs, i + 1),
                 PartErr(base), LAMBDA rest :
             [ok |-> TRUE, val |-> << v.val >> \o rest.val,
              pos |-> IF i = Len(RemotedIdentityFields) THEN v.pos ELSE rest.pos]))

RemotedIdentityTreeConnect_read(b, p, end) ==
    LET tt == ReadExact(b, p, 2, end)
        h == ReadExact(b, p, REMOTED_IDENTITY_HEADER_SIZE, end)
        offs == [i \in 1..Len(RemotedIdentityFields) |->
                     U16Val(SubSeq(h.bytes, 3 + 2 * i, 4 + 2 * i))]
    IN IF ~tt.ok \/ U16Val(tt.bytes) # 1 THEN PartErr(p)
       ELSE IF ~h.ok THEN PartErr(p)
       ELSE AndThen(RemotedIdentityValues_read(b, p, end, offs, 1), PartErr(p),
                    LAMBDA v :
                [ok |-> TRUE,
                 val |-> [ticket_size |-> U16Val(SubSeq(h.bytes, 3, 4)),
                          user |-> v.val[1], user_name |-> v.val[2],
                          domain |-> v.val[3], groups |-> v.val[4],
                          restricted_groups |-> v.val[5], privileges |-> v.val[6],
                          primary_group |-> v.val[7], owner |-> v.val[8],
                          default_dacl |-> v.val[9], device_groups |-> v.val[10],
                          user_claims |-> v.val[11], device_claims |-> v.val[12]],
                 pos |-> v.pos])

\* TreeConnectContext: context_type (1), data_length, reserved, data
TreeConnectContext_write(c) ==
    U16Bytes(1) \o U16Bytes(c.data_length) \o U32Bytes(c.reserved)
        \o RemotedIdentityTreeConnect_write(c.data)

TreeConnectContext_read(b, p, end) ==
    LET ct == ReadExact(b, p, 2, end)
        h == ReadExact(b, p, TREE_CONNECT_CONTEXT_SIZE, end)
    IN IF ~ct.ok \/ U16Val(ct.bytes) # 1 THEN PartErr(p)
       ELSE IF ~h.ok THEN PartErr(p)
       ELSE AndThen(RemotedIdentityTreeConnect_read(b, p + TREE_CONNECT_CONTEXT_SIZE,
                                                    end),
                    PartErr(p), LAMBDA d :
                [ok |-> TRUE,
                 val |-> [data_length |-> U16Val(SubSeq(h.bytes, 3, 4)),
                          reserved |-> U32Val(SubSeq(h.bytes, 5, 8)),
                          data |-> d.val],
                 pos |-> d.pos])

RECURSIVE TreeConnectContexts_write(_)
TreeConnectContexts_write(l) ==
    IF l = << >> THEN << >>
    ELSE TreeConnectContext_write(Head(l)) \o TreeConnectContexts_write(Tail(l))

\* count = tree_connect_context_count: each context is read where the one
\* before it left the reader
RECURSIVE TreeConnectContexts_read(_, _, _, _)
TreeConnectContexts_read(b, p, n, end) ==
    IF n = 0 THEN [ok |-> TRUE, list |-> << >>, pos |-> p]
    ELSE AndThen(TreeConnectContext_read(b, p, end),
                 [ok |-> FALSE, list |-> << >>, pos |-> p], LAMBDA c :
         AndThen(TreeConnectContexts_read(b, c.pos, n - 1, end),
                 [ok |-> FALSE, list |-> << >>, pos |-> p], LAMBDA rest :
             [ok |-> TRUE, list |-> << c.val >> \o rest.list, pos |-> rest.pos]))

\* the extension fields and the contexts are written when
\* tree_connect_contexts is not empty; _path_offset and
\* tree_connect_context_offset are filled by write_aoff / write_aoff_m with
\* the stream positions of buffer and of the contexts
TreeConnectRequest_bytes(x, p0) ==
    LET ext == x.tree_connect_contexts # << >>
        path == WideBytes(x.buffer)
        bufAt == p0 + TREE_CONNECT_BASE_SIZE
                     + (IF ext THEN TREE_CONNECT_EXTENSION_SIZE ELSE 0)
    IN U16Bytes(TREE_CONNECT_STRUCTURE_SIZE) \o TreeConnectFlags_write(x.flags)
           \o U16Bytes(WriteAoffValue(bufAt, p0 + 4)) \o U16Bytes(Len(path))
           \o (IF ext
               THEN U32Bytes(WriteAoffValue(bufAt + Len(path),
                                            p0 + TREE_CONNECT_BASE_SIZE))
                        \o U16Bytes(Len(x.tree_connect_contexts)) \o Zeros(10)
               ELSE << >>)
           \o path
           \o TreeConnectContexts_write(x.tree_connect_contexts)

\* the extension fields and the contexts are read when
\* flags.extension_present is set; the contexts are looked for at
\* tree_connect_context_offset.seek_relative(true): the marker's position
\* plus its value, or behind the path, where the reader is, when the value
\* is 0
TreeConnectRequest_read(b, p, end) ==
    LET r == ReadExact(b, p, TREE_CONNECT_BASE_SIZE, end)
        flags == TreeConnectFlags_read(SubSeq(r.bytes, 3, 4))
        ext == flags.extension_present
        marker == p + TREE_CONNECT_BASE_SIZE
        e == ReadExact(b, marker, TREE_CONNECT_EXTENSION_SIZE, end)
        q == marker + (IF ext THEN TREE_CONNECT_EXTENSION_SIZE ELSE 0)
        path == ReadExact(b, q, U16Val(SubSeq(r.bytes, 7, 8)), end)
        Message(list, at) ==
            [ok |-> TRUE,
             val |-> [type |-> "TreeConnectRequest", flags |-> flags,
                      buffer |-> WideUnits(path.bytes),
                      tree_connect_contexts |-> list],
             pos |-> at]
    IN IF ~r.ok THEN ReadErr
       ELSE IF U16Val(SubSeq(r.bytes, 1, 2)) # TREE_CONNECT_STRUCTURE_SIZE
       THEN ReadErr
       ELSE IF ext /\ ~e.ok THEN ReadErr
       ELSE IF ~path.ok \/ Len(path.bytes) % 2 # 0 THEN ReadErr
       ELSE IF ~ext THEN Message(<< >>, q + Len(path.bytes))
       ELSE AndThen(TreeConnectContexts_read(
                        b, SeekRelativeZeroCheck(marker, U32Val(SubSeq(e.bytes, 1, 4)),
                                                 q + Len(path.bytes)),
                        U16Val(SubSeq(e.bytes, 5, 6)), end),
                    ReadErr, LAMBDA ctx : Message(ctx.list, ctx.pos))

\* identities with empty groups and privileges
RemotedIdentity(name, sid) ==
    [ticket_size |-> 0,
     user |-> [sid_data |-> sid, attr |-> 7],
     user_name |-> name, domain |-> << >>,
     groups |-> << [sid_data |-> sid, attr |-> 1] >>,
     restricted_groups |-> << >>, privileges |-> << >>, primary_group |-> << >>,
     owner |-> [blob_size |-> Len(SID_write(sid)), blob_data |-> sid],
     default_dacl |-> [blob_size |-> ACL_HEADER_SIZE,
                       blob_data |-> [acl_revision |-> 2, ace |-> << >>]],
     device_groups |-> << >>,
     user_claims |-> [blob_size |-> CLAIM_FIXED_SIZE,
                      blob_data |-> [name |-> 0, value_type |-> 1, flags |-> 0,
                                     values |-> << >>]],
     device_claims |-> [blob_size |-> CLAIM_FIXED_SIZE,
                        blob_data |-> [name |-> 0, value_type |-> 1, flags |-> 0,
                                       values |-> << >>]]]

RemotedIdentityValues ==
    { RemotedIdentity(name, sid) : name \in {<< >>, << 97 >>}, sid \in SidValues }

TreeConnectContextValues ==
    [data_length : {4}, reserved : {0}, data : RemotedIdentityValues]

TreeConnectPaths == {<< >>, << 92 >>, << 92, 92, 97, 92, 98, 99, 100, 101, 102 >>}

TreeConnectRequestValues ==
    [type : {"TreeConnectRequest"},
     flags : [cluster_reconnect : BOOLEAN, extension_present : BOOLEAN],
     buffer : TreeConnectPaths,
     tree_connect_contexts : SeqsUpTo(TreeConnectContextValues, MaxItems)]

TreeConnectRequest_encode ==
    MsgWrite({"TreeConnectRequest"}, TreeConnectRequest_bytes(msg, start))
TreeConnectRequest_decode ==
    MsgRead({"TreeConnectRequest"}, TreeConnectRequest_read(buf, start, take_end))

InitTreeConnect ==
    /\ pc = "encode"
    /\ msg \in TreeConnectRequestValues
    /\ decoded = NoMessage
    /\ start \in HeaderSizes
    /\ buf = << >> /\ pos = 0 /\ take_end = 0 /\ result = "none"
    /\ MsgInitRest

NextTreeConnect == TreeConnectRequest_encode \/ TreeConnectRequest_decode

SpecTreeConnect == InitTreeConnect /\ [][NextTreeConnect]_vars

\* C20: the extension fields are emitted iff tree_connect_contexts is not
\* empty and parsed iff flags.extension_present is set, so a request decodes
\* from its encoding to itself exactly when flags.extension_present equals
\* (tree_connect_contexts is not empty).
C20_ExtensionGating ==
    /\ pc \in {"decode", "done"}
        => Len(buf) - start
               = TREE_CONNECT_BASE_SIZE + 2 * Len(msg.buffer)
                     + (IF msg.tree_connect_contexts # << >>
                        THEN TREE_CONNECT_EXTENSION_SIZE
                                 + Len(TreeConnectContexts_write(
                                           msg.tree_connect_contexts))
                        ELSE 0)
    /\ (pc = "done" /\ result = "ok" /\ ~decoded.flags.extension_present)
        => decoded.tree_connect_contexts = << >>
    /\ pc = "done"
        => ((result = "ok" /\ decoded = msg)
               <=> (msg.flags.extension_present
                       = (msg.tree_connect_contexts # << >>)))

---------------------------------------------------------------------------
(* ChangeNotifyResponse: the message around a chained list                  *)

CHANGE_NOTIFY_STRUCTURE_SIZE == 9
CHANGE_NOTIFY_FIXED_SIZE == 8

MaxNotifyWords == 4

\* _structure_size, _output_buffer_offset, _output_buffer_length
ChangeNotifyResponse_header(size, off, len) ==
    U16Bytes(size) \o U16Bytes(off) \o U32Bytes(len)

\* The message is read at `start`, where the reader stands.
\* _structure_size is read and asserted, then the two markers are read;
\* then the reader seeks to
\* SeekFrom::Start(_output_buffer_offset) and buffer is read through
\* take_seek(_output_buffer_length). A failed read of a fixed field leaves
\* the reader at the start of the message
ChangeNotifyResponse_read_header ==
    /\ pc = "header"
    /\ LET sz == ReadExact(buf, pos, 2, Len(buf))
           r == ReadExact(buf, pos, CHANGE_NOTIFY_FIXED_SIZE, Len(buf))
           off == U16Val(SubSeq(r.bytes, 3, 4))
           len == U32Val(SubSeq(r.bytes, 5, 8))
       IN IF ~sz.ok \/ U16Val(sz.bytes) # CHANGE_NOTIFY_STRUCTURE_SIZE \/ ~r.ok
          THEN /\ pc' = "returned"
               /\ result' = "err"
               /\ failAt' = IF ~sz.ok THEN "eof"
                             ELSE IF U16Val(sz.bytes) # CHANGE_NOTIFY_STRUCTURE_SIZE
                             THEN "assert" ELSE "eof"
               /\ pos' = start
               /\ UNCHANGED take_end
          ELSE /\ pc' = "read"
               /\ pos' = off
               /\ take_end' = off + len
               /\ UNCHANGED << result, failAt >>
    /\ UNCHANGED << OFFSET_PAD, start, value, buf, idx, markers, offsets, items,
                    starts, readHi, lastHi, decoded, msg >>
    /\ UNCHANGED << encVars, ccVars, mkVars >>

\* the derived read of ChangeNotifyResponse returns: the `?` on the buffer
\* field hands an error of read_chained on, and every derived read on the
\* way out (ChainedItemList, ChangeNotifyResponse) puts the reader back
\* where it began, the last one at `start`, where the read of the message
\* began; otherwise the message is built and the reader stays where
\* read_chained left it
ChangeNotifyResponse_return ==
    /\ pc = "done"
    /\ pc' = "returned"
    /\ decoded' = IF result = "ok"
                  THEN [type |-> "ChangeNotifyResponse", buffer |-> items]
                  ELSE NoMessage
    /\ pos' = IF result = "ok" THEN pos ELSE start
    /\ UNCHANGED << OFFSET_PAD, start, value, buf, take_end, idx, markers,
                    offsets, items, starts, result, readHi, lastHi, failAt, msg >>
    /\ UNCHANGED << encVars, ccVars, mkVars >>

\* where the buffer lies, counted from the start of the message
NotifyOffsets == {8, 12}
NotifyLengths == {0, 4, 12, 16, 20, 24}
NotifySizes == {CHANGE_NOTIFY_STRUCTURE_SIZE, 8}

InitNotify ==
    /\ pc = "header"
    /\ OFFSET_PAD = 4
    /\ start \in HeaderSizes
    /\ value = << >>
    /\ \E size \in NotifySizes, off \in NotifyOffsets, len \in NotifyLengths,
          ws \in SeqsUpTo(WordValues, MaxNotifyWords) :
           buf = Zeros(start) \o ChangeNotifyResponse_header(size, start + off, len)
                     \o WordsBytes(ws)
    /\ pos = start
    /\ take_end = 0
    /\ idx = 0
    /\ markers = << >>
    /\ offsets = << >>
    /\ items = << >>
    /\ starts = << >>
    /\ result = "none"
    /\ readHi = 0
    /\ lastHi = 0
    /\ failAt = ""
    /\ kind = "" /\ plen = 0 /\ plen2 = 0 /\ lenField = -1
    /\ build = "release" /\ cc = NoHeader /\ wrapped = FALSE
    /\ msg = NoMessage /\ decoded = NoMessage
    /\ NoMarkers

NextNotify ==
    \/ ChangeNotifyResponse_read_header
    \/ read_chained_begin
    \/ read_chained_loop
    \/ ChangeNotifyResponse_return

SpecNotify == InitNotify /\ [][NextNotify]_vars

\* C21: when the decode of any item of a chained list fails, read_chained
\* returns the error and no list, however many items it had decoded, and the
\* decode of the enclosing message fails as a whole.
C21_NoPartialSuccess ==
    /\ failAt # "" => (result = "err" /\ decoded = NoMessage)
    /\ pc = "returned" => (decoded # NoMessage <=> result = "ok")
    /\ (pc = "returned" /\ result = "ok") => decoded.buffer = items

C21_Witness ==
    /\ pc = "returned" /\ result = "err" /\ decoded = NoMessage
    /\ failAt = "assert"
    /\ Len(items) >= 1
    /\ start = 64 /\ pos = start

---------------------------------------------------------------------------
(* SizedWideString and its sibling length: CreateRequest.name,              *)
(* TreeConnectRequest.buffer                                                *)

CREATE_REQUEST_STRUCTURE_SIZE == 57
CREATE_REQUEST_FIXED_SIZE == 56
CREATE_REQUEST_ALIGN == 8
ImpersonationLevel_Impersonation == 2

MaxUnits == 5

\* (mutant) the size argument is taken as a count of code units
SizedWideString_read_Units(b, p, n, end) ==
    LET r == ReadExact(b, p, 2 * n, end)
    IN IF ~r.ok THEN [ok |-> FALSE, units |-> << >>, pos |-> p]
       ELSE [ok |-> TRUE, units |-> WideUnits(r.bytes), pos |-> p + 2 * n]

\* SizedWideString read with SizedStringSize::bytes16(n): n bytes are read
\* and taken as n / 2 UTF-16LE code units; there is no terminator
SizedWideString_read(b, p, n, end) ==
    LET r == ReadExact(b, p, n, end)
    IN IF ~r.ok \/ n % 2 # 0 THEN [ok |-> FALSE, units |-> << >>, pos |-> p]
       ELSE [ok |-> TRUE, units |-> WideUnits(r.bytes), pos |-> p + n]

\* SizedWideString write: the code units, nothing else
SizedWideString_write(units) == WideBytes(units)

\* a RequestCreateContext as a ChainedItem of the list, at a position that
\* is a multiple of 8: next_entry_offset, the offsets of name and data from
\* the start of the item, the name, the data at the next multiple of 8; an
\* item that is not the last is padded to 8 and gets its size as offset
RequestCreateContext_write(c, last) ==
    LET nameAt == CHAINED_ITEM_PREFIX_SIZE + CREATE_CONTEXT_HEADER_SIZE
        pad == AlignPadding(nameAt + Len(c.name), 8)
        dataAt == nameAt + Len(c.name) + pad
        body == U16Bytes(nameAt) \o U16Bytes(Len(c.name)) \o U16Bytes(0)
                    \o U16Bytes(dataAt) \o U32Bytes(Len(c.data))
                    \o c.name \o Zeros(pad) \o c.data
        size == CHAINED_ITEM_PREFIX_SIZE + Len(body)
        padn == AlignPadding(size, CREATE_CONTEXT_PAD)
    IN IF last THEN Zeros(CHAINED_ITEM_PREFIX_SIZE) \o body
       ELSE U32Bytes(size + padn) \o body \o Zeros(padn)

RECURSIVE RequestCreateContexts_write(_)
RequestCreateContexts_write(l) ==
    IF l = << >> THEN << >>
    ELSE RequestCreateContext_write(Head(l), Len(l) = 1) \o RequestCreateContexts_write(Tail(l))

\* the loop of read_chained over create contexts in a build without
\* overflow checks; the data of a context is kept as the bytes of the
\* take_seek view its variant was read in, which stops where the stream
\* does. pos is where the reader is left
RECURSIVE CreateContexts_from(_, _, _)
CreateContexts_from(b, p, end) ==
    With(CreateContext_read(b, p, end, "release"), LAMBDA r :
    IF r.res # "ok" THEN [ok |-> FALSE, list |-> << >>, pos |-> p]
    ELSE
    With([name |-> r.hdr.name,
          data |-> IF r.hdr.data_length > 0
                   THEN SubSeq(b, Min(p + r.hdr.data_offset, Len(b)) + 1,
                               Min(p + r.hdr.data_offset + r.hdr.data_length,
                                   Min(end, Len(b))))
                   ELSE << >>], LAMBDA item :
    IF r.pos = p THEN [ok |-> TRUE, list |-> << item >>, pos |-> p]
    ELSE
    With(CreateContexts_from(b, r.pos, end), LAMBDA rest :
        IF ~rest.ok THEN rest
        ELSE [ok |-> TRUE, list |-> << item >> \o rest.list, pos |-> rest.pos])))

CreateContexts_read(b, p, end, viewEnd) ==
    IF p = StreamEnd(b, viewEnd) THEN [ok |-> TRUE, list |-> << >>, pos |-> p]
    ELSE CreateContexts_from(b, p, Min(end, viewEnd))

\* the fields between the structure size and _name_offset:
\* _security_flags (0), requested_oplock_level, impersonation_level,
\* _smb_create_flags (0), _reserved (0), desired_access, file_attributes,
\* share_access, create_disposition, create_options
CreateRequest_fields(x) ==
    << 0, x.requested_oplock_level >> \o U32Bytes(x.impersonation_level)
        \o Zeros(16) \o U32Bytes(x.desired_access) \o U32Bytes(x.file_attributes)
        \o U32Bytes(x.share_access) \o U32Bytes(x.create_disposition)
        \o U32Bytes(x.create_options)

\* CreateRequest written at stream position p0: name_length is try_calc
\* name.size(); name is aligned to 8 and its position goes into
\* _name_offset; contexts are aligned to 8, their position and size go into
\* _create_contexts_offset and _create_contexts_length
CreateRequest_bytes(x, p0) ==
    LET name == SizedWideString_write(x.name)
        pad1 == AlignPadding(p0 + CREATE_REQUEST_FIXED_SIZE, CREATE_REQUEST_ALIGN)
        nameAt == p0 + CREATE_REQUEST_FIXED_SIZE + pad1
        pad2 == AlignPadding(nameAt + Len(name), CREATE_REQUEST_ALIGN)
        ctxAt == nameAt + Len(name) + pad2
        ctx == RequestCreateContexts_write(x.contexts)
    IN U16Bytes(CREATE_REQUEST_STRUCTURE_SIZE) \o CreateRequest_fields(x)
           \o U16Bytes(WriteAoffValue(nameAt, p0 + 44))
           \o U16Bytes(WideSize(Len(x.name)))
           \o U32Bytes(WriteAoffValue(ctxAt, p0 + 48))
           \o U32Bytes(WriteSizeValue(ctxAt + Len(ctx), ctxAt))
           \o Zeros(pad1) \o name \o Zeros(pad2) \o ctx

\* the values of the enums among the fixed fields
OplockLevels == {0, 1, 8, 9, 255}
ImpersonationLevels == 0..3
CreateDispositions == 0..5

\* BinRead of CreateRequest at p: the fixed fields with their asserts, the
\* name of name_length bytes at the next multiple of 8, the contexts through
\* take_seek(_create_contexts_length) at the next multiple of 8
CreateRequest_read(b, p, end) ==
    LET r == ReadExact(b, p, CREATE_REQUEST_FIXED_SIZE, end)
        nameAt == p + CREATE_REQUEST_FIXED_SIZE
                      + AlignPadding(p + CREATE_REQUEST_FIXED_SIZE,
                                     CREATE_REQUEST_ALIGN)
        fail == [ok |-> FALSE, val |-> NoMessage, name_at |-> 0, name_end |-> 0,
                 pos |-> p]
    IN IF ~r.ok THEN fail
       ELSE IF U16Val(SubSeq(r.bytes, 1, 2)) # CREATE_REQUEST_STRUCTURE_SIZE
       THEN fail
       ELSE IF r.bytes[3] # 0 \/ SubSeq(r.bytes, 9, 16) # Zeros(8) THEN fail
       ELSE IF r.bytes[4] \notin OplockLevels THEN fail
       ELSE IF SubSeq(r.bytes, 6, 8) # Zeros(3) \/ r.bytes[5] \notin ImpersonationLevels
       THEN fail
       ELSE IF SubSeq(r.bytes, 38, 40) # Zeros(3) \/ r.bytes[37] \notin CreateDispositions
       THEN fail
       ELSE
       AndThen(SizedWideString_read(b, nameAt, U16Val(SubSeq(r.bytes, 47, 48)), end),
               fail, LAMBDA name :
       With(name.pos + AlignPadding(name.pos, CREATE_REQUEST_ALIGN), LAMBDA ctxAt :
       AndThen(CreateContexts_read(b, ctxAt, end,
                                   ctxAt + U32Val(SubSeq(r.bytes, 53, 56))),
               fail, LAMBDA ctx :
           [ok |-> TRUE,
            val |-> [type |-> "CreateRequest",
                     requested_oplock_level |-> r.bytes[4],
                     impersonation_level |-> r.bytes[5],
                     desired_access |-> U32Val(SubSeq(r.bytes, 25, 28)),
                     file_attributes |-> U32Val(SubSeq(r.bytes, 29, 32)),
                     share_access |-> U32Val(SubSeq(r.bytes, 33, 36)),
                     create_disposition |-> r.bytes[37],
                     create_options |-> U32Val(SubSeq(r.bytes, 41, 44)),
                     name |-> name.units, contexts |-> ctx.list],
            name_at |-> nameAt, name_end |-> name.pos, pos |-> ctx.pos])))

WideChars == {97, 9786}

WideStrings == SeqsUpTo(WideChars, MaxUnits)

CreateRequestFor(name, contexts) ==
    [type |-> "CreateRequest", requested_oplock_level |-> 0,
     impersonation_level |-> ImpersonationLevel_Impersonation,
     desired_access |-> 1048705, file_attributes |-> 0, share_access |-> 7,
     create_disposition |-> 1, create_options |-> 131104,
     name |-> name, contexts |-> contexts]

PlainCreateRequestValues == { CreateRequestFor(n, << >>) : n \in WideStrings }

CreateContextLists ==
    {<< >>,
     << [name |-> NameMxAc, data |-> << >>], [name |-> NameQFid, data |-> << >>] >>,
     << [name |-> NameDH2Q, data |-> Zeros(16) \o U128Bytes(U128(66))] >>}

CreateRequestValues ==
    { CreateRequestFor(n, l) : n \in WideStrings, l \in CreateContextLists }

PlainTreeConnectRequestValues ==
    [type : {"TreeConnectRequest"},
     flags : [cluster_reconnect : {FALSE}, extension_present : {FALSE}],
     buffer : WideStrings,
     tree_connect_contexts : {<< >>}]

CreateRequest_encode ==
    MsgWrite({"CreateRequest"}, CreateRequest_bytes(msg, start))

\* the decode call; plen records the bytes the read of name consumed. The
\* reader is left where the last field left it, or at start on an error
CreateRequest_decode ==
    /\ pc = "decode"
    /\ msg.type = "CreateRequest"
    /\ With(CreateRequest_read(buf, start, take_end), LAMBDA r :
          /\ result' = IF r.ok THEN "ok" ELSE "err"
          /\ decoded' = r.val
          /\ plen' = r.name_end - r.name_at
          /\ plen2' = r.name_at
          /\ pos' = r.pos)
    /\ pc' = "done"
    /\ UNCHANGED << buf, take_end, msg, OFFSET_PAD, start, value, idx, markers,
                    offsets, items, starts, readHi, lastHi, failAt, kind, lenField >>
    /\ UNCHANGED << ccVars, mkVars >>

InitWide ==
    /\ pc = "encode"
    /\ msg \in CreateRequestValues \cup PlainTreeConnectRequestValues
    /\ decoded = NoMessage
    /\ start \in HeaderSizes
    /\ buf = << >> /\ pos = 0 /\ take_end = 0 /\ result = "none"
    /\ MsgInitRest

NextWide ==
    \/ CreateRequest_encode
    \/ CreateRequest_decode
    \/ TreeConnectRequest_encode
    \/ TreeConnectRequest_decode

SpecWide == InitWide /\ [][NextWide]_vars

\* the string of the message value, whichever field holds it
WideField(x) == IF x.type = "CreateRequest" THEN x.name ELSE x.buffer

\* the sibling length field on the wire, and where the string's bytes start
WireLength ==
    IF msg.type = "CreateRequest" THEN U16Val(BytesAt(start + 46, 2))
    ELSE U16Val(BytesAt(start + 6, 2))
WireStringAt ==
    IF msg.type = "CreateRequest"
    THEN start + CREATE_REQUEST_FIXED_SIZE
             + AlignPadding(start + CREATE_REQUEST_FIXED_SIZE, CREATE_REQUEST_ALIGN)
    ELSE start + TREE_CONNECT_BASE_SIZE

\* C22: name_length / path_length are written as 2 x (number of UTF-16 code
\* units); the decoder reads exactly that many bytes, without a terminator,
\* and gets that many / 2 code units; encoding the decoded string again writes
\* the same payload bytes and the same sibling length (10 bytes <-> 5 units).
C22_SizedWideString ==
    /\ pc \in {"decode", "done"}
        => /\ WireLength = 2 * Len(WideField(msg))
           /\ BytesAt(WireStringAt, WireLength) = WideBytes(WideField(msg))
           /\ msg.type = "TreeConnectRequest"
                  => Len(buf) = WireStringAt + WireLength
           /\ (msg.type = "CreateRequest" /\ msg.contexts = << >>)
                  => /\ Len(buf) - (WireStringAt + WireLength) < CREATE_REQUEST_ALIGN
                     /\ Len(buf) % CREATE_REQUEST_ALIGN = 0
    /\ pc = "done"
        => /\ result = "ok"
           /\ 2 * Len(WideField(decoded)) = WireLength
           /\ msg.type = "CreateRequest"
                  => /\ plen = WireLength /\ plen2 = WireStringAt
                     /\ CreateRequest_bytes(decoded, start) = BytesAt(start, Len(buf) - start)
           /\ msg.type = "TreeConnectRequest"
                  => TreeConnectRequest_bytes(decoded, start)
                         = BytesAt(start, Len(buf) - start)

C22_Witness ==
    /\ pc = "done" /\ result = "ok"
    /\ msg.type = "CreateRequest" /\ start = 64
    /\ WireLength = 10 /\ plen = 10
    /\ Len(decoded.name) = 5
    /\ BytesAt(WireStringAt, 12) = << 97, 0, 58, 38, 97, 0, 97, 0, 58, 38, 0, 0 >>

---------------------------------------------------------------------------
(* SpecWalk: read_chained over chains whose offsets skip bytes after a body *)
(* or point into it                                                          *)

MaxWalkWords == 7
WalkWords == {0, 4, 8, 16}

InitWalk ==
    /\ pc = "read"
    /\ OFFSET_PAD \in Pads
    /\ start = 0
    /\ value = << >>
    /\ \E ws \in SeqsUpTo(WalkWords, MaxWalkWords) : buf = WordsBytes(ws)
    /\ pos = 0
    /\ take_end = Len(buf)
    /\ idx = 0
    /\ markers = << >>
    /\ offsets = << >>
    /\ items = << >>
    /\ starts = << >>
    /\ result = "none"
    /\ readHi = 0
    /\ lastHi = 0
    /\ failAt = ""
    /\ kind = "" /\ plen = 0 /\ plen2 = 0 /\ lenField = -1
    /\ build = "release" /\ cc = NoHeader /\ wrapped = FALSE
    /\ msg = NoMessage /\ decoded = NoMessage
    /\ NoMarkers

NextWalk ==
    \/ read_chained_begin
    \/ read_chained_loop

SpecWalk == InitWalk /\ [][NextWalk]_vars

\* next_entry_offset of the i-th item read_chained started
OffsetAt(i) == U32Val(BytesAt(starts[i], CHAINED_ITEM_PREFIX_SIZE))

\* the position after the body of the i-th item
BodyEnd(i) == ReadT(buf, starts[i] + CHAINED_ITEM_PREFIX_SIZE, take_end).pos

\* C23: after an item that starts at p with next_entry_offset k # 0 the next
\* item is read at exactly p + k, whatever the body consumed; an item with
\* k = 0 is the last one; the number of items returned is the number of
\* offsets followed plus one.
C23_ChainWalk ==
    /\ \A i \in 1..(Len(starts) - 1) :
          OffsetAt(i) # 0 /\ starts[i + 1] = starts[i] + OffsetAt(i)
    /\ (pc = "loop" /\ starts # << >>)
          => /\ OffsetAt(Len(starts)) # 0
             /\ pos = starts[Len(starts)] + OffsetAt(Len(starts))
    /\ (pc = "done" /\ result = "ok" /\ starts # << >>)
          => /\ OffsetAt(Len(starts)) = 0
             /\ Len(items) = Len(starts)
             /\ Len(items) = Cardinality({i \in 1..Len(starts) : OffsetAt(i) # 0}) + 1

C23_Witness ==
    /\ pc = "done" /\ result = "ok" /\ Len(items) = 2
    /\ OffsetAt(1) = 16 /\ BodyEnd(1) = 12 /\ starts[2] = 16

---------------------------------------------------------------------------
(* Payloads with an offset field: where the decoder reads them              *)

HEADER_STRUCT_SIZE == 64
SESSION_SETUP_STRUCTURE_SIZE == 25
SESSION_SETUP_FIXED_SIZE == 24
READ_RESPONSE_STRUCT_SIZE == 17
READ_RESPONSE_FIXED_SIZE == 16

\* a CreateRequest as a peer may send it: the name lies `gap` bytes after
\* the first multiple of 8 behind the fixed fields, _name_offset says where
CreateRequest_wire(x, p0, gap) ==
    LET name == WideBytes(x.name)
        pad1 == AlignPadding(p0 + CREATE_REQUEST_FIXED_SIZE, CREATE_REQUEST_ALIGN)
        nameAt == p0 + CREATE_REQUEST_FIXED_SIZE + pad1 + gap
        pad2 == AlignPadding(nameAt + Len(name), CREATE_REQUEST_ALIGN)
    IN U16Bytes(CREATE_REQUEST_STRUCTURE_SIZE) \o CreateRequest_fields(x)
           \o U16Bytes(nameAt) \o U16Bytes(Len(name))
           \o U32Bytes(nameAt + Len(name) + pad2) \o U32Bytes(0)
           \o Zeros(pad1) \o Fill(gap) \o name \o Zeros(pad2)

\* SessionSetupRequest on the wire, the security buffer `gap` bytes after the
\* fixed fields
SessionSetupRequest_wire(x, p0, gap) ==
    U16Bytes(SESSION_SETUP_STRUCTURE_SIZE) \o Zeros(10)
        \o U16Bytes(p0 + SESSION_SETUP_FIXED_SIZE + gap) \o U16Bytes(Len(x.buffer))
        \o Zeros(8) \o Fill(gap) \o x.buffer

\* BinRead of SessionSetupRequest: buffer is security_buffer_length bytes at
\* the position the fixed fields end at
SessionSetupRequest_read(b, p, end) ==
    LET r == ReadExact(b, p, SESSION_SETUP_FIXED_SIZE, end)
        data == ReadExact(b, p + SESSION_SETUP_FIXED_SIZE,
                          U16Val(SubSeq(r.bytes, 15, 16)), end)
    IN IF ~r.ok THEN ReadErr
       ELSE IF U16Val(SubSeq(r.bytes, 1, 2)) # SESSION_SETUP_STRUCTURE_SIZE
       THEN ReadErr
       ELSE IF ~data.ok THEN ReadErr
       ELSE [ok |-> TRUE,
             pos |-> p + SESSION_SETUP_FIXED_SIZE + Len(data.bytes),
             val |-> [type |-> "SessionSetupRequest",
                      flags |-> r.bytes[3], security_mode |-> r.bytes[4],
                      capabilities |-> U32Val(SubSeq(r.bytes, 5, 8)),
                      previous_session_id |-> U64Val(SubSeq(r.bytes, 17, 24)),
                      buffer |-> data.bytes]]

\* ReadResponse on the wire, the data `gap` bytes after the fixed fields
ReadResponse_wire(x, p0, gap) ==
    U16Bytes(READ_RESPONSE_STRUCT_SIZE)
        \o << p0 + READ_RESPONSE_FIXED_SIZE + gap, 0 >>
        \o U32Bytes(Len(x.buffer)) \o Zeros(8) \o Fill(gap) \o x.buffer

\* BinRead of ReadResponse: the asserts on _data_offset, _data_length and
\* _data_remaining, then seek_before = SeekFrom::Start(_data_offset) and
\* _data_length bytes
ReadResponse_read(b, p, end) ==
    LET r == ReadExact(b, p, READ_RESPONSE_FIXED_SIZE, end)
        off == r.bytes[3]
        len == U32Val(SubSeq(r.bytes, 5, 8))
        data == ReadExact(b, off, len, end)
    IN IF ~r.ok THEN ReadErr
       ELSE IF U16Val(SubSeq(r.bytes, 1, 2)) # READ_RESPONSE_STRUCT_SIZE THEN ReadErr
       ELSE IF off < HEADER_STRUCT_SIZE + READ_RESPONSE_STRUCT_SIZE - 1 THEN ReadErr
       ELSE IF len = 0 \/ U32Val(SubSeq(r.bytes, 9, 12)) # 0 THEN ReadErr
       ELSE IF ~data.ok THEN ReadErr
       ELSE [ok |-> TRUE, pos |-> off + len,
             val |-> [type |-> "ReadResponse", buffer |-> data.bytes]]

OffsetGaps == {0, 8}
PayloadBytes == {1, 2}
BufferValues ==
    [type : {"SessionSetupRequest", "ReadResponse"},
     buffer : SeqsUpTo(PayloadBytes, MaxUnits) \ {<< >>}]

\* what a peer sent: the message value msg, laid out with a gap of plen2
Peer_send ==
    /\ pc = "send"
    /\ \E gap \in OffsetGaps :
          /\ plen2' = gap
          /\ buf' = Zeros(start)
                      \o (CASE msg.type = "CreateRequest"
                                 -> CreateRequest_wire(msg, start, gap)
                            [] msg.type = "SessionSetupRequest"
                                 -> SessionSetupRequest_wire(msg, start, gap)
                            [] msg.type = "ReadResponse"
                                 -> ReadResponse_wire(msg, start, gap))
    /\ take_end' = Len(buf')
    /\ pc' = "decode"
    /\ UNCHANGED << OFFSET_PAD, start, value, pos, idx, markers, offsets, items,
                    starts, result, readHi, lastHi, failAt, kind, plen, lenField >>
    /\ UNCHANGED << ccVars, msgVars, mkVars >>

SessionSetupRequest_decode ==
    MsgRead({"SessionSetupRequest"}, SessionSetupRequest_read(buf, start, take_end))
ReadResponse_decode ==
    MsgRead({"ReadResponse"}, ReadResponse_read(buf, start, take_end))

InitOffset ==
    /\ pc = "send"
    /\ msg \in PlainCreateRequestValues \cup BufferValues
    /\ decoded = NoMessage
    /\ start = HEADER_STRUCT_SIZE
    /\ buf = << >> /\ pos = 0 /\ take_end = 0 /\ result = "none"
    /\ MsgInitRest

NextOffset ==
    \/ Peer_send
    \/ CreateRequest_decode
    \/ SessionSetupRequest_decode
    \/ ReadResponse_decode

SpecOffset == InitOffset /\ [][NextOffset]_vars

\* the offset and length fields of the payload on the wire
WireOffsetField ==
    CASE msg.type = "CreateRequest" -> U16Val(BytesAt(start + 44, 2))
      [] msg.type = "SessionSetupRequest" -> U16Val(BytesAt(start + 12, 2))
      [] msg.type = "ReadResponse" -> buf[start + 3]
WireLengthField ==
    CASE msg.type = "CreateRequest" -> U16Val(BytesAt(start + 46, 2))
      [] msg.type = "SessionSetupRequest" -> U16Val(BytesAt(start + 14, 2))
      [] msg.type = "ReadResponse" -> U32Val(BytesAt(start + 4, 4))

\* C24: a payload that has an offset field on the wire is read at the
\* position that field holds, also when the payload does not directly follow
\* the fields before it.
C24_OffsetDriven ==
    pc = "done"
       => /\ result = "ok"
          /\ (IF msg.type = "CreateRequest" THEN WideBytes(decoded.name)
              ELSE decoded.buffer) = BytesAt(WireOffsetField, WireLengthField)

---------------------------------------------------------------------------
(* Tagged records: the discriminant that is written                         *)

NotifySessionClosedType == 0
NOTIFICATION_SIZE == 12

\* ServerToClientNotification: structure_size, _reserved, notification_type
\* calculated by notification.get_type(), then the notification
ServerToClientNotification_bytes(x) ==
    U16Bytes(x.structure_size) \o U16Bytes(0)
        \o U32Bytes(NotifySessionClosedType) \o U32Bytes(0)

ServerToClientNotification_read(b, p, end) ==
    LET r == ReadExact(b, p, NOTIFICATION_SIZE, end)
    IN IF ~r.ok \/ U32Val(SubSeq(r.bytes, 5, 8)) # NotifySessionClosedType
       THEN ReadErr
       ELSE [ok |-> TRUE, pos |-> p + NOTIFICATION_SIZE,
             val |-> [type |-> "ServerToClientNotification",
                      structure_size |-> U16Val(SubSeq(r.bytes, 1, 2)),
                      notification |-> "NotifySessionClosed"]]

\* NegotiateContext { context_type, data }: both fields are public, the
\* From impls set them together
TaggedNegotiateContexts ==
    [type : {"NegotiateContext"},
     ctype : {EncryptionCapabilitiesId, SigningCapabilitiesId},
     variant : {"EncryptionCapabilities", "SigningCapabilities"},
     list : {<< >>, << 1 >>, << 2, 1 >>}]

ServerToClientNotificationValues ==
    [type : {"ServerToClientNotification"}, structure_size : {4, 12},
     notification : {"NotifySessionClosed"}]

NegotiateContext_encode ==
    MsgWrite({"NegotiateContext"}, NegotiateContext_write(start, msg))

NegotiateContext_decode ==
    MsgRead({"NegotiateContext"},
            LET r == NegotiateContext_read(buf, start, take_end)
            IN IF ~r.ok THEN ReadErr
               ELSE [ok |-> TRUE, pos |-> r.pos,
                     val |-> [type |-> "NegotiateContext", ctype |-> r.val.ctype,
                              variant |-> NegotiateContextVariant(r.val.ctype),
                              list |-> r.val.list]])

ServerToClientNotification_encode ==
    MsgWrite({"ServerToClientNotification"}, ServerToClientNotification_bytes(msg))

ServerToClientNotification_decode ==
    MsgRead({"ServerToClientNotification"},
            ServerToClientNotification_read(buf, start, take_end))

InitTagged ==
    /\ pc = "encode"
    /\ msg \in TaggedNegotiateContexts \cup SetInfoRequestValues
                  \cup ServerToClientNotificationValues
    /\ decoded = NoMessage
    /\ start \in HeaderSizes
    /\ buf = << >> /\ pos = 0 /\ take_end = 0 /\ result = "none"
    /\ MsgInitRest

NextTagged ==
    \/ NegotiateContext_encode
    \/ NegotiateContext_decode
    \/ SetInfoRequest_encode
    \/ SetInfoRequest_decode
    \/ ServerToClientNotification_encode
    \/ ServerToClientNotification_decode

SpecTagged == InitTagged /\ [][NextTagged]_vars

\* the discriminant on the wire, and the one of the variant that was encoded
WireDiscriminant ==
    CASE msg.type = "NegotiateContext" -> U16Val(BytesAt(start, 2))
      [] msg.type = "SetInfoRequest" -> buf[start + 3]
      [] msg.type = "ServerToClientNotification" -> U32Val(BytesAt(start + 4, 4))
VariantDiscriminant ==
    CASE msg.type = "NegotiateContext" -> get_matching_type(msg.variant)
      [] msg.type = "SetInfoRequest" -> InfoTypeOf(msg.data.variant)
      [] msg.type = "ServerToClientNotification" -> NotifySessionClosedType

\* C25: the discriminant an encode writes is the one of the body variant that
\* is present, for every value of a tagged record that can be constructed; no
\* encode succeeds with a discriminant that selects another variant on decode.
C25_DiscriminantFollowsVariant ==
    /\ pc \in {"decode", "done"} => WireDiscriminant = VariantDiscriminant
    /\ (pc = "done" /\ result = "ok" /\ msg.type = "NegotiateContext")
          => decoded.variant = msg.variant

---------------------------------------------------------------------------
(* Alignment padding: chained items (OFFSET_PAD 4, 8) and negotiate         *)
(* contexts (8), written and read back                                      *)

InitAlign ==
    \/ Init
    \/ /\ InitNegotiate
       /\ HasSmb0311(msg.dialects)
       /\ msg.negotiate_context_list.some

NextAlign == Next \/ NextNegotiate

SpecAlign == InitAlign /\ [][NextAlign]_vars

\* the padding the claim gives for boundary b at position p
PaddingAt(p, b) == (b - (p % b)) % b

\* where the body of the i-th chained item ends
ItemBodyEnd(i) == markers[i] + CHAINED_ITEM_PREFIX_SIZE + Len(TBytes(value[i]))

\* where the fixed part and the dialects of the NegotiateRequest end
DialectsEnd == start + NEGOTIATE_STRUCTURE_SIZE + 2 * Len(msg.dialects)

\* the encoded size of a negotiate context, its header included
ContextSize(c) == NEGOTIATE_CONTEXT_HEADER + Len(ContextValue_write(c))

\* where the i-th negotiate context starts and ends, by the claim's formula
RECURSIVE ContextEnd(_)
ContextStart(i) ==
    LET e == IF i = 1 THEN DialectsEnd ELSE ContextEnd(i - 1)
    IN e + PaddingAt(e, NEGOTIATE_CONTEXT_ALIGN)
ContextEnd(i) == ContextStart(i) + ContextSize(msg.negotiate_context_list.v[i])

\* C26: before a field with alignment boundary b (4 or 8) the encoder writes
\* exactly (b - (position mod b)) mod b zero bytes, none at an aligned
\* position, so that the field starts at a multiple of b; the decoder skips
\* the same bytes and reads the field at the same place.
C26_AlignmentPadding ==
    /\ msg = NoMessage =>
          /\ \A i \in 1..(Len(markers) - 1) :
                LET e == ItemBodyEnd(i)
                IN /\ markers[i + 1] = e + PaddingAt(e, OFFSET_PAD)
                   /\ markers[i + 1] % OFFSET_PAD = 0
                   /\ BytesAt(e, markers[i + 1] - e) = Zeros(PaddingAt(e, OFFSET_PAD))
          /\ \A i \in 1..Len(starts) : i <= Len(markers) /\ starts[i] = markers[i]
    /\ (msg # NoMessage /\ pc \in {"decode", "done"}) =>
          LET l == msg.negotiate_context_list.v
          IN /\ \A i \in 1..Len(l) :
                   LET e == IF i = 1 THEN DialectsEnd ELSE ContextEnd(i - 1)
                   IN /\ ContextStart(i) % NEGOTIATE_CONTEXT_ALIGN = 0
                      /\ BytesAt(e, ContextStart(i) - e)
                             = Zeros(PaddingAt(e, NEGOTIATE_CONTEXT_ALIGN))
                      /\ BytesAt(ContextStart(i), 2) = U16Bytes(l[i].ctype)
             /\ Len(buf) = IF l = << >>
                           THEN DialectsEnd + PaddingAt(DialectsEnd, NEGOTIATE_CONTEXT_ALIGN)
                           ELSE ContextEnd(Len(l))
             /\ pc = "done" => (result = "ok" /\ decoded = msg)

C26_Witness ==
    /\ pc = "done" /\ result = "ok" /\ msg = NoMessage
    /\ OFFSET_PAD = 8 /\ start = 8
    /\ markers = << 8, 24 >> /\ starts = << 8, 24 >>
    /\ ItemBodyEnd(1) = 22
    /\ BytesAt(22, 2) = << 0, 0 >>

---------------------------------------------------------------------------
(* read_chained as a function of the bytes, and the bytes it does not read  *)

MaxLenientWords == 9
LenientWords == {0, 8, 16}

\* the loop of read_chained from position p on
RECURSIVE read_chained_from(_, _, _, _)
read_chained_from(b, p, end, pad) ==
    LET r == ChainedItemRead(b, p, end, pad)
    IN IF ~r.ok THEN [ok |-> FALSE, items |-> << >>]
       ELSE IF r.pos = p THEN [ok |-> TRUE, items |-> << r.val >>]
       ELSE LET rest == read_chained_from(b, r.pos, end, pad)
            IN IF ~rest.ok THEN rest
               ELSE [ok |-> TRUE, items |-> << r.val >> \o rest.items]

\* ChainedItem::read_chained on the reader (b, p, end)
read_chained(b, p, end, pad) ==
    IF p = StreamEnd(b, end) THEN [ok |-> TRUE, items |-> << >>]
    ELSE read_chained_from(b, p, end, pad)

InitLenient ==
    /\ pc = "read"
    /\ OFFSET_PAD \in Pads
    /\ start = 0
    /\ value = << >>
    /\ \E ws \in SeqsUpTo(LenientWords, MaxLenientWords) : buf = WordsBytes(ws)
    /\ pos = 0
    /\ take_end = Len(buf)
    /\ idx = 0
    /\ markers = << >>
    /\ offsets = << >>
    /\ items = << >>
    /\ starts = << >>
    /\ result = "none"
    /\ readHi = 0
    /\ lastHi = 0
    /\ failAt = ""
    /\ kind = "" /\ plen = 0 /\ plen2 = 0 /\ lenField = -1
    /\ build = "release" /\ cc = NoHeader /\ wrapped = FALSE
    /\ msg = NoMessage /\ decoded = NoMessage
    /\ NoMarkers

NextLenient ==
    \/ read_chained_begin
    \/ read_chained_loop

SpecLenient == InitLenient /\ [][NextLenient]_vars

\* the words of the region, by position
RegionWords == {g \in 0..(Len(buf) - 4) : g % 4 = 0}

\* the word at g lies between the end of the body of a decoded item and the
\* start of the next item, or behind the body of the last item
InGap(g) ==
    \/ \E i \in 1..Len(items) :
          /\ i < Len(starts)
          /\ BodyEnd(i) <= g /\ g + 4 <= starts[i + 1]
    \/ /\ result = "ok" /\ items # << >>
       /\ BodyEnd(Len(items)) <= g

\* the word at g belongs to no item read_chained started: it lies outside
\* the offset field and the body of every decoded item and in front of the
\* item a failed decode stopped at
Unread(g) ==
    /\ \A i \in 1..Len(items) : g + 4 <= starts[i] \/ BodyEnd(i) <= g
    /\ result = "err" => g + 4 <= starts[Len(starts)]

\* the outcome of the decode that ran, and of a decode of the same bytes with
\* the word at g replaced by w
Outcome == [ok |-> result = "ok", items |-> IF result = "ok" THEN items ELSE << >>]
OutcomeWith(g, w) ==
    read_chained(WriteAt(buf, g, U32Bytes(w)), start, take_end, OFFSET_PAD)

\* C27 as stated: the result of decoding a chained list does not depend on
\* the bytes between the end of an item's body and the start of the next
\* item, nor on the bytes behind the last item's body inside the region.
C27_Original ==
    pc = "done" =>
        \A g \in RegionWords, w \in LenientWords :
            InGap(g) => OutcomeWith(g, w) = Outcome

\* C27 amended: the result of decoding a chained list depends only on the
\* bytes of the offset fields and bodies of the items read_chained starts;
\* bytes of the region that belong to none of them (padding in front of the
\* next item, bytes behind the last body) can take any value without changing
\* the result. Where a next_entry_offset points into the body of its own
\* item, bytes between a later item's body and its successor can belong to
\* that earlier body, and then the decoded value does depend on them.
C27_UnreadBytes ==
    pc = "done" =>
        /\ read_chained(buf, start, take_end, OFFSET_PAD) = Outcome
        /\ \A g \in RegionWords, w \in LenientWords :
              Unread(g) => OutcomeWith(g, w) = Outcome

C27_Witness ==
    /\ pc = "done" /\ result = "ok" /\ Len(items) = 2
    /\ buf = WordsBytes(<< 16, 8, 0, 8, 0, 8, 0, 16 >>)
    /\ Unread(12) /\ InGap(12) /\ Unread(28) /\ InGap(28)

---------------------------------------------------------------------------
(* IoctlResponse::parse_fsctl                                               *)

\* a response content type T: FSCTL_CODES = [PipePeek], decoded from four
\* u32 fields
PipePeekResponse_FSCTL_CODES == {FSCTL_PIPE_PEEK}
PIPE_PEEK_RESPONSE_SIZE == 16

\* T::read_le on a Cursor over out_buffer
PipePeekResponse_read(out_buffer) ==
    LET r == ReadExact(out_buffer, 0, PIPE_PEEK_RESPONSE_SIZE, Len(out_buffer))
    IN IF ~r.ok THEN ReadErr
       ELSE [ok |-> TRUE,
             val |-> [type |-> "PipePeekResponse",
                      named_pipe_state |-> U32Val(SubSeq(r.bytes, 1, 4)),
                      read_data_available |-> U32Val(SubSeq(r.bytes, 5, 8)),
                      number_of_messages |-> U32Val(SubSeq(r.bytes, 9, 12)),
                      message_length |-> U32Val(SubSeq(r.bytes, 13, 16))]]

\* parse_fsctl::<T>(&self): the check of ctl_code against T::FSCTL_CODES,
\* then Ok(T::read_le(&mut cursor).unwrap())
parse_fsctl ==
    /\ pc = "call"
    /\ msg.type = "IoctlResponse"
    /\ pc' = "done"
    /\ LET r == PipePeekResponse_read(msg.out_buffer)
       IN IF msg.ctl_code \notin PipePeekResponse_FSCTL_CODES
          THEN /\ result' = "err"
               /\ failAt' = "MissingFsctlDefinition"
               /\ decoded' = NoMessage
          ELSE IF r.ok
          THEN /\ result' = "ok"
               /\ decoded' = r.val
               /\ UNCHANGED failAt
          ELSE /\ result' = "panic"
               /\ decoded' = NoMessage
               /\ UNCHANGED failAt
    /\ UNCHANGED << OFFSET_PAD, start, value, buf, pos, take_end, idx, markers,
                    offsets, items, starts, readHi, lastHi, msg >>
    /\ UNCHANGED << encVars, ccVars, mkVars >>

IoctlResponseValues ==
    [type : {"IoctlResponse"},
     ctl_code : {FSCTL_PIPE_PEEK, FSCTL_PIPE_TRANSCEIVE},
     out_buffer : {WordsBytes(ws) : ws \in SeqsUpTo({0, 1}, MaxUnits)}
                      \cup {<< 1 >>, << 1, 0, 0, 0, 2, 0 >>}]

InitFsctl ==
    /\ pc = "call"
    /\ msg \in IoctlResponseValues
    /\ decoded = NoMessage
    /\ start = 0
    /\ buf = << >> /\ pos = 0 /\ take_end = 0 /\ result = "none"
    /\ MsgInitRest

NextFsctl == parse_fsctl

SpecFsctl == InitFsctl /\ [][NextFsctl]_vars

\* C28: parse_fsctl always returns: Err(MissingFsctlDefinition) when ctl_code
\* is not among T::FSCTL_CODES, otherwise the decoded T, or an error when
\* out_buffer is not a valid encoding of T; it never aborts.
C28_ParseFsctlReturns ==
    pc = "done" =>
        /\ result \in {"ok", "err"}
        /\ msg.ctl_code \notin PipePeekResponse_FSCTL_CODES
              <=> failAt = "MissingFsctlDefinition"
        /\ result = "ok" <=> (/\ msg.ctl_code \in PipePeekResponse_FSCTL_CODES
                              /\ PipePeekResponse_read(msg.out_buffer).ok)

---------------------------------------------------------------------------
(* SpecWalkLive: read_chained runs to its return                            *)

MaxLiveWords == 5
LiveWords == {0, 4, 16}

\* the caller hands read_chained a reader over a region of its choice
read_chained_call ==
    /\ pc = "call"
    /\ pc' = "read"
    /\ \E ws \in SeqsUpTo(LiveWords, MaxLiveWords) :
          /\ buf' = WordsBytes(ws)
          /\ take_end' = 4 * Len(ws)
    /\ UNCHANGED << OFFSET_PAD, start, value, pos, idx, markers, offsets, items,
                    starts, result, readHi, lastHi, failAt >>
    /\ UNCHANGED << encVars, ccVars, msgVars, mkVars >>

InitWalkLive ==
    /\ pc = "call"
    /\ OFFSET_PAD \in Pads
    /\ start = 0
    /\ value = << >>
    /\ buf = << >>
    /\ pos = 0
    /\ take_end = 0
    /\ idx = 0
    /\ markers = << >>
    /\ offsets = << >>
    /\ items = << >>
    /\ starts = << >>
    /\ result = "none"
    /\ readHi = 0
    /\ lastHi = 0
    /\ failAt = ""
    /\ kind = "" /\ plen = 0 /\ plen2 = 0 /\ lenField = -1
    /\ build = "release" /\ cc = NoHeader /\ wrapped = FALSE
    /\ msg = NoMessage /\ decoded = NoMessage
    /\ NoMarkers

NextWalkLive ==
    \/ read_chained_call
    \/ read_chained_begin
    \/ read_chained_loop

\* read_chained is a sequential loop on the caller's thread: a step that is
\* enabled is taken
SpecWalkLive == InitWalkLive /\ [][NextWalkLive]_vars /\ WF_vars(NextWalkLive)

\* every item after the first starts strictly behind the one before it, a
\* non-zero multiple of OFFSET_PAD further
StrictlyForward ==
    /\ \A i \in 1..(Len(starts) - 1) :
          /\ starts[i + 1] > starts[i]
          /\ (starts[i + 1] - starts[i]) % OFFSET_PAD = 0
    /\ (pc = "loop" /\ starts # << >>) =>
          /\ pos > starts[Len(starts)]
          /\ (pos - starts[Len(starts)]) % OFFSET_PAD = 0

\* no position is visited twice, and the number of iterations is bounded by
\* the size of the region
NoRevisit ==
    /\ \A i, j \in 1..Len(starts) : i # j => starts[i] # starts[j]
    /\ Len(starts) <= ((take_end - start) \div OFFSET_PAD) + 1

\* C29: read_chained terminates on every region and content: each iteration
\* stops or moves the next item's start strictly forward by a non-zero
\* multiple of OFFSET_PAD, no position is revisited, and it returns a list
\* or an error.
C29_Terminates ==
    /\ [](StrictlyForward /\ NoRevisit)
    /\ <>(pc = "done" /\ result \in {"ok", "err"})

C29_Witness ==
    /\ pc = "done" /\ result = "err"
    /\ Len(starts) = 3
    /\ starts[2] < BodyEnd(1)
    /\ starts[3] > starts[2]

---------------------------------------------------------------------------
(* Where read_chained leaves the reader                                     *)

\* C30: after read_chained returned a non-empty list the reader stands at
\* the start of the last decoded item (its next_entry_offset field), before
\* the end of that item's body and before the end of the list's bytes; after
\* it returned an empty list the reader stands where it was called.
C30_PositionAfterDecode ==
    (pc = "done" /\ result = "ok") =>
        IF items = << >>
        THEN pos = start /\ starts = << >>
        ELSE /\ pos = starts[Len(starts)]
             /\ OffsetAt(Len(starts)) = 0
             /\ pos + CHAINED_ITEM_PREFIX_SIZE < BodyEnd(Len(starts))
             /\ pos < StreamEnd(buf, take_end)

C30_Witness ==
    /\ pc = "done" /\ result = "ok" /\ Len(items) = 2
    /\ start = 8 /\ pos = starts[2] /\ pos > start
    /\ BodyEnd(2) = StreamEnd(buf, take_end)
    /\ Len(buf) > take_end

C30_EmptyWitness ==
    /\ pc = "done" /\ result = "ok" /\ items = << >> /\ starts = << >>
    /\ pos = start /\ Len(buf) >= 8

====
